---- MODULE Spec2Model ----
(***************************************************************************)
(* srt-reading-helper: the subtitle synchronisation engine, the scroll     *)
(* coordinator, the keyboard control gate and the IndexedDB persistence    *)
(* layer of AppContent, as state machines.                                 *)
(*                                                                         *)
(* Text is modelled character by character: a string is a sequence of      *)
(* one-character strings, so that split / parseInt / padStart do what the  *)
(* JavaScript does.  Playback time is a number of ticks, TicksPerMs ticks  *)
(* to the millisecond, so that playback positions between two              *)
(* milliseconds exist.                                                     *)
(***************************************************************************)
EXTENDS Integers, Sequences, FiniteSets, TLC

VARIABLES
    \* ---- AppContent state (useState / useRef / useUrlState) ----
    subtitles,          \* Subtitle[]            (useState)
    currentTime,        \* playedSeconds, ticks  (useState)
    isPlaying,          \* useState
    mounted,            \* AppContent is mounted: no render has thrown
    isUserScrolling,    \* useGetState
    scrollTimeoutRef,   \* useRef: timer id, 0 = null
    isControlModeEnabled,
    isEditDialogOpen,
    selectedSubtitle,   \* Subtitle | null (NoSubtitle)
    isSubtitlesVisible,
    volume,             \* a double, written as its shortest decimal text
    isMuted,
    boundIsMuted,       \* isMuted as captured by the registered keydown handler
    currentVideoKey,    \* urlState.currentVideoKey, "" = none
    videoUrl,           \* object URL, named by the key of the file it shows; "" = null
    videos,             \* the listed videos (set of keys)
    \* ---- environment ----
    now,                \* wall clock, ms
    timers,             \* pending window.setTimeout timers: set of [id, due]
    nextTimerId,
    videoStore,         \* object store "videos": the keys that hold a row
    subtitlesStore,     \* object store "subtitles": key -> stored subtitles
    responses,          \* storage promises whose continuation has not run yet,
                        \* in the order their transactions ran
    \* ---- observation ----
    ret,                \* the last direct call of a Sync Engine function
    autoScroll,         \* what the auto-scroll effect did in the last step
    lastScrollAt,       \* wall-clock time of the last scroll event, -1 = none yet
    clearedDue,         \* due time of the last timer clearTimeout cancelled, -1 = none
    lastKey,            \* what the last keydown event did
    lastSeek,           \* the last playerRef.seekTo request
    lastExec,           \* the last storage operation run, and what it returned
    deletedMedia,       \* keys whose deleteVideo resolved, no saveVideo since
    deletedSubtitles    \* keys whose deleteVideo resolved, no saveSubtitles since

syncVars    == <<subtitles, currentTime>>
playVars    == <<isPlaying, mounted>>
scrollVars  == <<isUserScrolling, scrollTimeoutRef, now, timers, nextTimerId, autoScroll,
                 lastScrollAt, clearedDue>>
gateVars    == <<isControlModeEnabled, isEditDialogOpen, selectedSubtitle,
                 isSubtitlesVisible, volume, isMuted, boundIsMuted, lastKey, lastSeek>>
selVars     == <<currentVideoKey, videoUrl, videos>>
storeVars   == <<videoStore, subtitlesStore, responses, lastExec, deletedMedia,
                 deletedSubtitles>>
vars        == <<syncVars, playVars, scrollVars, gateVars, selVars, storeVars, ret>>

-----------------------------------------------------------------------------
(* Bounds *)

MaxLen     == 2     \* longest transcript enumerated
MaxSec     == 2     \* latest whole second used in an enumerated timestamp
TicksPerMs == 2     \* resolution of the playback position
TimeStep   == 500   \* the wall clock advances in steps of TimeStep ms
MaxTime    == 2000  \* the wall clock stops here once no timer is pending
MaxTimers  == 3     \* timers started per behaviour

-----------------------------------------------------------------------------
(* JavaScript text and numbers *)

Undefined == <<"undefined">>      \* the value undefined (no character is 9 long)

Digits == <<"0", "1", "2", "3", "4", "5", "6", "7", "8", "9">>

DigitValues == [c \in {Digits[d] : d \in 1..10} |-> (CHOOSE d \in 1..10 : Digits[d] = c) - 1]

IsDigit(c) == c \in DOMAIN DigitValues

DigitVal(c) == DigitValues[c]

NaN == [kind |-> "NaN", v |-> 0]

TypeError == [kind |-> "TypeError", v |-> 0]

Num(n) == [kind |-> "num", v |-> n]

\* the pieces of s from position `from` on, cut at every sep; i scans
RECURSIVE SplitFrom(_, _, _, _)
SplitFrom(s, sep, from, i) ==
    IF i > Len(s) THEN <<SubSeq(s, from, Len(s))>>
    ELSE IF s[i] = sep THEN <<SubSeq(s, from, i - 1)>> \o SplitFrom(s, sep, i + 1, i + 1)
    ELSE SplitFrom(s, sep, from, i + 1)

\* String.prototype.split with a one-character separator
Split(s, sep) == SplitFrom(s, sep, 1, 1)

\* array destructuring: the i-th element, undefined when the array is shorter
Nth(arr, i) == IF i <= Len(arr) THEN arr[i] ELSE Undefined

RECURSIVE ParseDigits(_, _, _, _)
ParseDigits(s, i, seen, acc) ==
    IF i <= Len(s) /\ IsDigit(s[i])
    THEN ParseDigits(s, i + 1, TRUE, acc * 10 + DigitVal(s[i]))
    ELSE IF seen THEN Num(acc) ELSE NaN

RECURSIVE SkipSpaces(_, _)
SkipSpaces(s, i) == IF i <= Len(s) /\ s[i] = " " THEN SkipSpaces(s, i + 1) ELSE i

\* Number.parseInt: leading blanks skipped, then the longest run of decimal
\* digits; NaN when there is none (undefined reads as the text "undefined").
parseInt(s) ==
    IF s = Undefined THEN NaN ELSE ParseDigits(s, SkipSpaces(s, 1), FALSE, 0)

\* Number.prototype.toString of a non-negative integer
RECURSIVE NumToString(_)
NumToString(n) ==
    IF n < 10 THEN <<Digits[n + 1]>>
    ELSE Append(NumToString(n \div 10), Digits[(n % 10) + 1])

RECURSIVE padStart(_, _, _)
padStart(s, width, fill) ==
    IF Len(s) >= width THEN s ELSE padStart(<<fill>> \o s, width, fill)

-----------------------------------------------------------------------------
(* Time Codec *)

\* the body of timeToSeconds, in ticks.  Throws (TypeError) when timeStr is
\* undefined or has fewer than three colon-separated fields; NaN when a field
\* has no digits.
ParseTime(timeStr) ==
    IF timeStr = Undefined THEN TypeError
    ELSE LET parts   == Split(timeStr, ":")
             hours   == Nth(parts, 1)
             minutes == Nth(parts, 2)
             seconds == Nth(parts, 3)
         IN  IF seconds = Undefined THEN TypeError
             ELSE LET sp   == Split(seconds, ",")
                      secs == Nth(sp, 1)
                      ms   == Nth(sp, 2)
                      h == parseInt(hours)
                      m == parseInt(minutes)
                      s == parseInt(secs)
                      f == parseInt(ms)
                  IN  IF h.kind = "NaN" \/ m.kind = "NaN" \/ s.kind = "NaN" \/ f.kind = "NaN" THEN NaN
                      ELSE Num((h.v * 3600000 + m.v * 60000 + s.v * 1000 + f.v) * TicksPerMs)

\* seconds is an IEEE double.  For the double that timeToSeconds yields for
\* second T and millisecond ms (T + ms / 1000), Math.floor((seconds % 1) * 1000)
\* is ms or, where the double lies below the decimal, ms - 1.  The pairs for
\* which it is ms - 1, for every T up to CodecSecs and ms up to CodecMs:
CodecSecs == 4
CodecMs == 49

FlooredBelow ==
    {<<0, ms>> : ms \in {}} \cup
    {<<1, ms>> : ms \in {1, 3, 5, 7, 9, 11, 13, 15, 17, 19, 21, 23, 25, 27, 29, 31, 33, 35, 37, 39, 41, 43, 45, 47, 49}} \cup
    {<<2, ms>> : ms \in {1, 2, 5, 6, 9, 10, 13, 14, 17, 18, 21, 22, 25, 26, 29, 30, 33, 34, 37, 38, 41, 42, 45, 46, 49}} \cup
    {<<3, ms>> : ms \in {1, 2, 5, 6, 9, 10, 13, 14, 17, 18, 21, 22, 25, 26, 29, 30, 33, 34, 37, 38, 41, 42, 45, 46, 49}} \cup
    {<<4, ms>> : ms \in {2, 4, 5, 7, 10, 12, 13, 15, 18, 20, 21, 23, 26, 28, 29, 31, 34, 36, 37, 39, 42, 44, 45, 47}}

\* Math.floor((seconds % 1) * 1000), seconds in ticks
FlooredMs(seconds) ==
    LET total == seconds \div TicksPerMs
    IN  IF seconds % TicksPerMs = 0 /\ <<total \div 1000, total % 1000>> \in FlooredBelow
        THEN (total % 1000) - 1
        ELSE total % 1000

\* secondsToTimeStr: every component floored, H/M/S padded to 2, ms to 3
secondsToTimeStr(seconds) ==
    LET total   == seconds \div TicksPerMs          \* whole milliseconds
        hours   == total \div 3600000
        minutes == (total % 3600000) \div 60000
        secs    == (total % 60000) \div 1000
        ms      == FlooredMs(seconds)
    IN  padStart(NumToString(hours), 2, "0") \o <<":">> \o
        padStart(NumToString(minutes), 2, "0") \o <<":">> \o
        padStart(NumToString(secs), 2, "0") \o <<",">> \o
        padStart(NumToString(ms), 3, "0")

-----------------------------------------------------------------------------
(* Transcripts enumerated as inputs *)

TwoDigits(n) == <<Digits[(n \div 10) + 1], Digits[(n % 10) + 1]>>

ThreeDigits(n) == <<Digits[(n \div 100) + 1]>> \o TwoDigits(n % 100)

\* the text HH:MM:SS,mmm of a number of milliseconds
Stamp(totalMs) ==
    TwoDigits(totalMs \div 3600000) \o <<":">> \o
    TwoDigits((totalMs % 3600000) \div 60000) \o <<":">> \o
    TwoDigits((totalMs % 60000) \div 1000) \o <<",">> \o
    ThreeDigits(totalMs % 1000)

\* "00:00:SS": the fractional-seconds field is missing
StampNoFraction(sec) == TwoDigits(0) \o <<":">> \o TwoDigits(0) \o <<":">> \o TwoDigits(sec)

WholeSeconds == {Stamp(s * 1000) : s \in 1..MaxSec}

\* timestamps of the enumerated transcripts: well-formed ones, one whose
\* fractional-seconds field is missing (it reads as NaN), and undefined (a
\* timing line without " --> ")
StampTexts == WholeSeconds \cup {StampNoFraction(1), Undefined}

\* playback positions: each whole second, one tick before it and one tick after
PlayTimes == {s * 1000 * TicksPerMs + d : s \in 1..MaxSec, d \in {-1, 0, 1}}

Entry(i, a, b) == [id |-> i, startTime |-> a, endTime |-> b, text |-> "text"]

TimingPairs == StampTexts \X StampTexts

\* every transcript of at most MaxLen entries over StampTexts, ids in block order
Transcripts ==
    UNION {{[i \in 1..n |-> Entry(i, f[i][1], f[i][2])] : f \in [1..n -> TimingPairs]}
           : n \in 0..MaxLen}

NoSubtitle == [id |-> 0, startTime |-> <<>>, endTime |-> <<>>, text |-> ""]

NoRet == [op |-> "none", threw |-> FALSE, index |-> -1, subs |-> <<>>]

\* ParseTime of every enumerated timestamp, computed once
TimeTable == [s \in StampTexts |-> ParseTime(s)]

\* timeToSeconds
timeToSeconds(timeStr) ==
    IF timeStr \in DOMAIN TimeTable THEN TimeTable[timeStr] ELSE ParseTime(timeStr)

-----------------------------------------------------------------------------
(* Sync Engine *)

\* InRange with the end of the range excluded (currentTime < end)
InRangeEndExclusive(subtitle, t) ==
    LET a == timeToSeconds(subtitle.startTime)
    IN  IF a.kind = "TypeError" THEN "throw"
        ELSE IF ~(a.kind = "num" /\ t >= a.v) THEN "false"
        ELSE LET b == timeToSeconds(subtitle.endTime)
             IN  IF b.kind = "TypeError" THEN "throw"
                 ELSE IF b.kind = "num" /\ t < b.v THEN "true" ELSE "false"

\* currentTime >= timeToSeconds(startTime) && currentTime <= timeToSeconds(endTime)
\* evaluated left to right: "true", "false", or "throw"
InRange(subtitle, t) ==
    LET a == timeToSeconds(subtitle.startTime)
    IN  IF a.kind = "TypeError" THEN "throw"
        ELSE IF ~(a.kind = "num" /\ t >= a.v) THEN "false"
        ELSE LET b == timeToSeconds(subtitle.endTime)
             IN  IF b.kind = "TypeError" THEN "throw"
                 ELSE IF b.kind = "num" /\ t <= b.v THEN "true" ELSE "false"

RECURSIVE FilterFrom(_, _, _, _)
FilterFrom(subs, t, i, acc) ==
    IF i > Len(subs) THEN [threw |-> FALSE, val |-> acc]
    ELSE LET r == InRange(subs[i], t)
         IN  IF r = "throw" THEN [threw |-> TRUE, val |-> <<>>]
             ELSE FilterFrom(subs, t, i + 1, IF r = "true" THEN Append(acc, subs[i]) ELSE acc)

\* getCurrentSubtitles: subtitles.filter(in range)
getCurrentSubtitles(subs, t) == FilterFrom(subs, t, 1, <<>>)

RECURSIVE FindIndexFrom(_, _, _)
FindIndexFrom(subs, t, i) ==
    IF i > Len(subs) THEN [threw |-> FALSE, val |-> -1]
    ELSE LET r == InRange(subs[i], t)
         IN  IF r = "throw" THEN [threw |-> TRUE, val |-> -1]
             ELSE IF r = "true" THEN [threw |-> FALSE, val |-> i - 1]
             ELSE FindIndexFrom(subs, t, i + 1)

RECURSIVE LastStartedFrom(_, _, _)
LastStartedFrom(subs, t, i) ==
    IF i < 1 THEN [threw |-> FALSE, val |-> -1]
    ELSE LET a == timeToSeconds(subs[i].startTime)
         IN  IF a.kind = "TypeError" THEN [threw |-> TRUE, val |-> -1]
             ELSE IF a.kind = "num" /\ a.v <= t THEN [threw |-> FALSE, val |-> i - 1]
             ELSE LastStartedFrom(subs, t, i - 1)

\* getCurrentSubtitleIndex without the backward scan (findIndex alone)
getCurrentSubtitleIndexExactOnly(subs, t) == FindIndexFrom(subs, t, 1)

\* getCurrentSubtitleIndex: findIndex(in range), else the backward scan for the
\* last subtitle that has started, else -1.  Indices are 0-based as in the code.
getCurrentSubtitleIndex(subs, t) ==
    LET exact == FindIndexFrom(subs, t, 1)
    IN  IF exact.threw \/ exact.val # -1 THEN exact
        ELSE LastStartedFrom(subs, t, Len(subs))

-----------------------------------------------------------------------------
(* Initial values of AppContent and of its environment *)

NoKey      == ""         \* currentVideoKey "" / videoUrl null
NoAutoScroll == [ran |-> FALSE, invoked |-> FALSE, target |-> 0]
NoKeyEvent == [handled |-> FALSE, prevented |-> FALSE]
NoSeek     == [requested |-> FALSE, seconds |-> Num(0)]
NoRows     == [video |-> FALSE, subtitles |-> FALSE]

\* a storage operation that has run: what was asked (op, key), how its promise
\* settles (ok) and with what (url / found, subs / list), and the continuation
\* that awaits it (cont).  For deleteVideo: which rows the key had before and
\* has after, and how often the caller's promise is rejected.  For
\* saveSubtitles: the subtitles written (subs) and the subtitles state of the
\* handler that called it, as it was when the handler started (prior).
Response(op, key, cont) ==
    [op |-> op, key |-> key, cont |-> cont, ok |-> TRUE, url |-> NoKey,
     found |-> FALSE, subs |-> <<>>, list |-> {},
     requests |-> NoRows, before |-> NoRows, after |-> NoRows,
     rejections |-> 0, prior |-> <<>>]

NoExec == Response("none", NoKey, "none")

InitPlay == isPlaying = FALSE /\ mounted = TRUE

InitScroll ==
    /\ isUserScrolling = FALSE
    /\ scrollTimeoutRef = 0
    /\ now = 0
    /\ timers = {}
    /\ nextTimerId = 1
    /\ autoScroll = NoAutoScroll
    /\ lastScrollAt = -1
    /\ clearedDue = -1

InitGate ==
    /\ isControlModeEnabled = TRUE
    /\ isEditDialogOpen = FALSE
    /\ selectedSubtitle = NoSubtitle
    /\ isSubtitlesVisible = TRUE
    /\ volume = "0.8"
    /\ isMuted = FALSE
    /\ boundIsMuted = FALSE
    /\ lastKey = NoKeyEvent
    /\ lastSeek = NoSeek

InitSel ==
    /\ currentVideoKey = NoKey
    /\ videoUrl = NoKey
    /\ videos = {}

InitStore ==
    /\ videoStore = {}
    /\ subtitlesStore = [k \in {} |-> <<>>]
    /\ responses = <<>>
    /\ lastExec = NoExec
    /\ deletedMedia = {}
    /\ deletedSubtitles = {}

-----------------------------------------------------------------------------
(* SpecSync: the Sync Engine's two queries, over every enumerated transcript *)
(* and playback position                                                     *)

InitSync ==
    /\ subtitles \in Transcripts
    /\ currentTime \in PlayTimes
    /\ ret = NoRet
    /\ InitPlay /\ InitScroll /\ InitGate /\ InitSel /\ InitStore

CallGetCurrentSubtitleIndex ==
    /\ LET r == getCurrentSubtitleIndex(subtitles, currentTime)
       IN  ret' = [op |-> "getCurrentSubtitleIndex", threw |-> r.threw,
                   index |-> r.val, subs |-> <<>>]
    /\ UNCHANGED <<syncVars, playVars, scrollVars, gateVars, selVars, storeVars>>

CallGetCurrentSubtitles ==
    /\ LET r == getCurrentSubtitles(subtitles, currentTime)
       IN  ret' = [op |-> "getCurrentSubtitles", threw |-> r.threw,
                   index |-> -1, subs |-> r.val]
    /\ UNCHANGED <<syncVars, playVars, scrollVars, gateVars, selVars, storeVars>>

NextSync == CallGetCurrentSubtitleIndex \/ CallGetCurrentSubtitles

SpecSync == InitSync /\ [][NextSync]_vars

-----------------------------------------------------------------------------
(* Claims about the Sync Engine, checked under SpecSync *)

\* the parsed start (a) and end (b) of every entry
ParsedTimes(subs) ==
    [i \in 1..Len(subs) |-> [a |-> timeToSeconds(subs[i].startTime),
                             b |-> timeToSeconds(subs[i].endTime)]]

\* no timestamp of the transcript makes timeToSeconds throw
Parses(P) == \A i \in DOMAIN P : P[i].a.kind # "TypeError" /\ P[i].b.kind # "TypeError"

AllStartsNumeric(P) == \A i \in DOMAIN P : P[i].a.kind = "num"

\* positions (1-based) of the entries whose [start, end] contains t
ContainingAt(P, t) ==
    {i \in DOMAIN P : /\ P[i].a.kind = "num" /\ P[i].b.kind = "num"
                      /\ P[i].a.v <= t /\ t <= P[i].b.v}

\* positions (1-based) of the entries that have started by t
StartedAt(P, t) == {i \in DOMAIN P : P[i].a.kind = "num" /\ P[i].a.v <= t}

MinOf(S) == CHOOSE x \in S : \A y \in S : x <= y
MaxOf(S) == CHOOSE x \in S : \A y \in S : x >= y

\* activeIndex as the specification words it, 0-based, -1 = NotFound
ActiveIndexOf(P, t) ==
    LET C == ContainingAt(P, t)
        S == StartedAt(P, t)
    IN  IF C # {} THEN MinOf(C) - 1
        ELSE IF S # {} THEN MaxOf(S) - 1
        ELSE -1

\* C1: getCurrentSubtitleIndex returns the index of the first entry whose
\* [start, end] contains the playback time; when none contains it, the highest
\* index whose start <= time; and -1 exactly when the time precedes every
\* entry's start (the empty transcript included).
C1_ActiveIndex ==
    ret.op = "getCurrentSubtitleIndex" =>
        LET P == ParsedTimes(subtitles)
        IN  Parses(P) =>
              /\ ~ret.threw
              /\ ret.index = ActiveIndexOf(P, currentTime)
              /\ AllStartsNumeric(P) =>
                   (ret.index = -1 <=> \A i \in DOMAIN P : currentTime < P[i].a.v)

\* the backward scan decides: nothing contains the time, both entries have
\* started, the second one first, and the later position is returned
C1_Witness ==
    /\ ret.op = "getCurrentSubtitleIndex"
    /\ Len(subtitles) = 2
    /\ LET P == ParsedTimes(subtitles)
       IN  /\ ContainingAt(P, currentTime) = {}
           /\ StartedAt(P, currentTime) = {1, 2}
           /\ P[2].a.v < P[1].a.v
    /\ ret.index = 1

\* C2: getCurrentSubtitles returns exactly the entries with start <= t <= end,
\* both ends inclusive, every one of them when ranges overlap, in transcript
\* order.
C2_ActiveEntries ==
    ret.op = "getCurrentSubtitles" =>
        LET P == ParsedTimes(subtitles)
            C == ContainingAt(P, currentTime)
        IN  Parses(P) =>
              /\ ~ret.threw
              /\ \A i \in 1..Len(ret.subs) : ret.subs[i] \in {subtitles[j] : j \in C}
              /\ Len(ret.subs) = Cardinality(C)
              /\ \A i, j \in 1..Len(ret.subs) : i < j => ret.subs[i].id < ret.subs[j].id

\* two overlapping entries of different ranges, the time on the end of one
\* and on the start of the other: both returned, in order
C2_Witness ==
    /\ ret.op = "getCurrentSubtitles"
    /\ Len(subtitles) = 2
    /\ ret.subs = subtitles
    /\ LET P == ParsedTimes(subtitles)
       IN  /\ P[1].b.v = currentTime
           /\ P[2].a.v = currentTime
           /\ P[1].a.v < currentTime

\* C16: an entry with a malformed timestamp (a field missing, no fractional
\* seconds, no end time) is never active and never matched, at every playback
\* time, and neither query raises a fault: the entries with readable
\* timestamps resolve as if the malformed ones were not matched.
C16_MalformedNeverMatched ==
    LET P == ParsedTimes(subtitles)
        C == ContainingAt(P, currentTime)
    IN  /\ ret.op # "none" => ~ret.threw
        /\ ret.op = "getCurrentSubtitleIndex" =>
               ret.index = ActiveIndexOf(P, currentTime)
        /\ ret.op = "getCurrentSubtitles" =>
               /\ Len(ret.subs) = Cardinality(C)
               /\ \A i \in 1..Len(ret.subs) : ret.subs[i] \in {subtitles[j] : j \in C}

-----------------------------------------------------------------------------
(* SpecScroll: the Scroll Coordinator -- scroll events, the suppression     *)
(* timer, and the auto-scroll effect run by playback progress              *)

ScrollResetDelay == 1000     \* window.setTimeout(..., 1000)

S1 == Stamp(1000)
S2 == Stamp(2000)

\* the transcripts of the session specifications: none, one entry, two entries
\* with a gap, two overlapping entries
SessionTranscripts ==
    { <<>>,
      <<Entry(1, S1, S2)>>,
      <<Entry(1, S1, S1), Entry(2, S2, S2)>>,
      <<Entry(7, S1, S2), Entry(7, S2, S2)>> }

\* the auto-scroll effect without the isPlaying condition
AutoScrollEffectIgnoringPlaying(subs, t, scrolling, playing) ==
    LET currentSubs == getCurrentSubtitles(subs, t).val
    IN  IF Len(currentSubs) > 0 /\ ~scrolling
        THEN [ran |-> TRUE, invoked |-> TRUE, target |-> currentSubs[1].id]
        ELSE [ran |-> TRUE, invoked |-> FALSE, target |-> 0]

\* the body of the auto-scroll effect: scrollIntoView of the first current
\* subtitle's element (the container and the element are mounted)
AutoScrollEffect(subs, t, scrolling, playing) ==
    LET currentSubs == getCurrentSubtitles(subs, t).val
    IN  IF Len(currentSubs) > 0 /\ ~scrolling /\ playing
        THEN [ran |-> TRUE, invoked |-> TRUE, target |-> currentSubs[1].id]
        ELSE [ran |-> TRUE, invoked |-> FALSE, target |-> 0]

\* the effect runs after a render in which a dependency
\* ([currentTime, isUserScrolling]) changed
AfterRender ==
    autoScroll' =
        IF currentTime' # currentTime \/ isUserScrolling' # isUserScrolling
        THEN AutoScrollEffect(subtitles', currentTime', isUserScrolling', isPlaying')
        ELSE NoAutoScroll

InitScrollSpec ==
    /\ subtitles \in SessionTranscripts
    /\ currentTime = 0
    /\ ret = NoRet
    /\ InitPlay /\ InitScroll /\ InitGate /\ InitSel /\ InitStore

\* the render of the subtitle list evaluates, for every subtitle,
\* currentTime >= timeToSeconds(startTime) && currentTime <= timeToSeconds(endTime);
\* a throw in it unmounts AppContent (there is no error boundary)
Renders(subs, t) == \A i \in 1..Len(subs) : InRange(subs[i], t) # "throw"

gateState == <<isControlModeEnabled, isEditDialogOpen, selectedSubtitle,
               isSubtitlesVisible, volume, isMuted, lastKey, lastSeek>>

\* the keydown effect registers a new handleKeyDown after a render in which one
\* of its dependencies changed; isMuted is not among them, so the registered
\* handler keeps the isMuted of the render that created it
KeydownEffect ==
    boundIsMuted' =
        IF <<subtitles, isPlaying, isControlModeEnabled, currentTime,
             isSubtitlesVisible, isEditDialogOpen, volume>>'
           # <<subtitles, isPlaying, isControlModeEnabled, currentTime,
               isSubtitlesVisible, isEditDialogOpen, volume>>
        THEN isMuted'
        ELSE boundIsMuted

\* handleProgress: onProgress delivers playedSeconds
handleProgress ==
    /\ mounted
    /\ \E playedSeconds \in PlayTimes :
          /\ currentTime' = playedSeconds
          /\ mounted' = Renders(subtitles, playedSeconds)
    /\ UNCHANGED <<subtitles, isPlaying, isUserScrolling, scrollTimeoutRef, now, timers,
                   nextTimerId, lastScrollAt, clearedDue>>
    /\ UNCHANGED <<gateState, selVars, storeVars, ret>>
    /\ AfterRender
    /\ KeydownEffect

\* ReactPlayer onPlay / onPause
OnPlay ==
    /\ mounted
    /\ isPlaying' = TRUE
    /\ UNCHANGED <<syncVars, mounted, isUserScrolling, scrollTimeoutRef, now, timers,
                   nextTimerId, lastScrollAt, clearedDue>>
    /\ UNCHANGED <<gateState, selVars, storeVars, ret>>
    /\ AfterRender
    /\ KeydownEffect

OnPause ==
    /\ mounted
    /\ isPlaying' = FALSE
    /\ UNCHANGED <<syncVars, mounted, isUserScrolling, scrollTimeoutRef, now, timers,
                   nextTimerId, lastScrollAt, clearedDue>>
    /\ UNCHANGED <<gateState, selVars, storeVars, ret>>
    /\ AfterRender
    /\ KeydownEffect

\* handleScroll with a second timer stacked on the pending one (no clearTimeout)
ScrollTimersStacked == timers \cup {[id |-> nextTimerId, due |-> now + ScrollResetDelay]}

\* handleScroll clearing the timer it has just set (ref assigned before the clear)
ScrollTimersNewCleared == timers

\* the pending timers after handleScroll: the one the ref names is cleared,
\* a new one is set
ScrollTimers ==
    {tm \in timers : scrollTimeoutRef = 0 \/ tm.id # scrollTimeoutRef}
        \cup {[id |-> nextTimerId, due |-> now + ScrollResetDelay]}

\* handleScroll: onScroll of the subtitles container
handleScroll ==
    /\ nextTimerId <= MaxTimers
    /\ isUserScrolling' = TRUE
    /\ timers' = ScrollTimers
    /\ clearedDue' = IF \E tm \in timers : tm.id = scrollTimeoutRef
                     THEN (CHOOSE tm \in timers : tm.id = scrollTimeoutRef).due
                     ELSE clearedDue
    /\ scrollTimeoutRef' = nextTimerId
    /\ nextTimerId' = nextTimerId + 1
    /\ lastScrollAt' = now
    /\ UNCHANGED <<syncVars, playVars, now>>
    /\ AfterRender
    /\ UNCHANGED <<gateVars, selVars, storeVars, ret>>

\* the timeout callback: setIsUserScrolling(false)
TimerFire ==
    /\ \E tm \in timers :
          /\ tm.due <= now
          /\ timers' = timers \ {tm}
    /\ isUserScrolling' = FALSE
    /\ UNCHANGED <<syncVars, playVars, scrollTimeoutRef, now, nextTimerId,
                   lastScrollAt, clearedDue>>
    /\ AfterRender
    /\ UNCHANGED <<gateVars, selVars, storeVars, ret>>

\* the wall clock advances
Tick ==
    /\ now < MaxTime \/ \E tm \in timers : tm.due > now
    /\ now' = now + TimeStep
    /\ UNCHANGED <<syncVars, playVars, isUserScrolling, scrollTimeoutRef, timers,
                   nextTimerId, lastScrollAt, clearedDue>>
    /\ AfterRender
    /\ UNCHANGED <<gateVars, selVars, storeVars, ret>>

NextScroll == handleProgress \/ OnPlay \/ OnPause \/ handleScroll \/ TimerFire \/ Tick

SpecScroll == InitScrollSpec /\ [][NextScroll]_vars

\* the browser runs a due timer, and time passes
SpecScrollFair == SpecScroll /\ WF_vars(TimerFire) /\ WF_vars(Tick)

-----------------------------------------------------------------------------
(* Claims about the Scroll Coordinator, checked under SpecScroll *)

ActiveNow == ContainingAt(ParsedTimes(subtitles), currentTime) # {}

\* C3: scrollIntoView is invoked only when an entry is active at the current
\* playback time, isUserScrolling is false and isPlaying is true; never while
\* suppressed, never while paused.
C3_AutoScrollGuard ==
    autoScroll.invoked => (ActiveNow /\ ~isUserScrolling /\ isPlaying)

\* auto-scroll invoked after a suppression window has ended
C3_Witness == autoScroll.invoked /\ lastScrollAt >= 0

\* C4: every scroll event cancels the pending timer and starts a new 1000 ms
\* one: at most one timer is pending, it is the one the ref names and it is due
\* 1000 ms after the last scroll event; until then isUserScrolling stays true
\* and scrollIntoView is not invoked, whatever the playback position does.
C4_TimerRestart ==
    /\ Cardinality(timers) <= 1
    /\ \A tm \in timers :
          tm.id = scrollTimeoutRef /\ tm.due = lastScrollAt + ScrollResetDelay
    /\ (lastScrollAt >= 0 /\ now < lastScrollAt + ScrollResetDelay) =>
          (isUserScrolling /\ ~autoScroll.invoked /\ timers # {})

\* a second scroll event cancelled the first timer; the first timer's due time
\* has come, playback is on an active entry, the effect ran and did not scroll
C4_Witness ==
    /\ clearedDue >= 0 /\ clearedDue <= now
    /\ now < lastScrollAt + ScrollResetDelay
    /\ isUserScrolling /\ isPlaying /\ ActiveNow
    /\ autoScroll.ran /\ ~autoScroll.invoked

\* C5: once scroll events stop, the timer fires and isUserScrolling becomes
\* false again (fairness of the timer and of the clock); at that moment
\* scrollIntoView is invoked exactly if playback is playing on an active entry;
\* and isUserScrolling turns false no earlier than 1000 ms after the last
\* scroll event, so scroll events less than 1000 ms apart keep it true.
C5_SuppressionEnds ==
    /\ isUserScrolling ~> ~isUserScrolling
    /\ [][(isUserScrolling /\ ~isUserScrolling') =>
            /\ autoScroll'.invoked <=> (isPlaying' /\ ActiveNow')
            /\ now' - lastScrollAt' >= ScrollResetDelay]_vars

\* suppression has just ended, 1000 ms after the last of several scroll events,
\* and auto-scroll has resumed
C5_Witness ==
    /\ lastScrollAt >= 0 /\ nextTimerId > 2
    /\ now = lastScrollAt + ScrollResetDelay
    /\ ~isUserScrolling /\ autoScroll.invoked

(***************************************************************************)
(* Persistence Store and the selection handlers.                           *)
(*                                                                         *)
(* Every storage function first awaits initDB() and then opens its         *)
(* transaction, so transactions are created, and run, in the order of the  *)
(* calls, and nothing but these functions touches the database.  The       *)
(* transaction of a call is therefore run in the step that makes the call; *)
(* the promise it returns settles in a later step, when its continuation   *)
(* runs.  Two settlements may overtake each other only when their          *)
(* transactions could run side by side: IndexedDB starts a transaction     *)
(* only after every earlier one with an overlapping scope has finished,    *)
(* unless both are read-only.                                              *)
(*                                                                         *)
(* An object URL made for the file stored under a key is written as that   *)
(* key.  A failing commit after both requests succeeded is not modelled.   *)
(***************************************************************************)

Keys       == {"a", "b"}
MaxPending == 3          \* handlers start only while fewer promises are pending

StoredTranscripts == {<<Entry(1, S1, S2)>>, <<Entry(1, S1, S1), Entry(2, S2, S2)>>}

Rows(vs, ss, key) == [video |-> key \in vs, subtitles |-> key \in DOMAIN ss]

PutAppending(ss, key, subs) ==
    [k \in DOMAIN ss \cup {key} |->
        IF k # key THEN ss[k]
        ELSE IF key \in DOMAIN ss THEN ss[key] \o subs ELSE subs]

Put(ss, key, subs) ==
    [k \in DOMAIN ss \cup {key} |-> IF k = key THEN subs ELSE ss[k]]

Remove(ss, key) == [k \in DOMAIN ss \ {key} |-> ss[k]]

Scope(op) ==
    CASE op \in {"saveVideo", "loadVideo", "listVideos"} -> {"videos"}
      [] op \in {"saveSubtitles", "loadSubtitles"}        -> {"subtitles"}
      [] OTHER                                            -> {"videos", "subtitles"}

ReadOnly(op) == op \in {"loadVideo", "loadSubtitles", "listVideos"}

Conflict(r1, r2) ==
    /\ Scope(r1.op) \cap Scope(r2.op) # {}
    /\ ~(ReadOnly(r1.op) /\ ReadOnly(r2.op))

Deliverable(i) ==
    /\ i \in 1..Len(responses)
    /\ \A j \in 1..(i - 1) : ~Conflict(responses[j], responses[i])

RemoveAt(s, i) == SubSeq(s, 1, i - 1) \o SubSeq(s, i + 1, Len(s))

\* loadVideo(key) and loadSubtitles(key) on the store as it is
loadVideo(key, cont) ==
    [Response("loadVideo", key, cont) EXCEPT
        !.url = IF key \in videoStore THEN key ELSE NoKey]

loadSubtitles(key, cont) ==
    [Response("loadSubtitles", key, cont) EXCEPT
        !.found = key \in DOMAIN subtitlesStore,
        !.subs  = IF key \in DOMAIN subtitlesStore
                  THEN subtitlesStore[key] ELSE <<>>]

listVideos(vs, key, cont) ==
    [Response("listVideos", key, cont) EXCEPT !.list = vs]

\* deleteVideo: the rows left once the transaction over both stores is over.
\* A failed request that nobody cancels aborts the transaction, and an
\* aborted transaction leaves no change behind.
DeleteRowsVideoOnly(vs, ss, key, vOk, sOk) ==
    IF vOk /\ sOk
    THEN [videos |-> vs \ {key}, subtitles |-> ss]
    ELSE [videos |-> vs, subtitles |-> ss]

DeleteRowsSeparateTransactions(vs, ss, key, vOk, sOk) ==
    [videos    |-> IF vOk THEN vs \ {key} ELSE vs,
     subtitles |-> IF sOk THEN Remove(ss, key) ELSE ss]

DeleteRows(vs, ss, key, vOk, sOk) ==
    IF vOk /\ sOk
    THEN [videos |-> vs \ {key}, subtitles |-> Remove(ss, key)]
    ELSE [videos |-> vs, subtitles |-> ss]

\* Promise.all over the two request promises, then resolve / catch(reject)
deleteVideo(key, cont, vOk, sOk) ==
    LET left == DeleteRows(videoStore, subtitlesStore, key, vOk, sOk)
    IN  [Response("deleteVideo", key, cont) EXCEPT
            !.ok         = vOk /\ sOk,
            !.requests   = [video |-> vOk, subtitles |-> sOk],
            !.before     = Rows(videoStore, subtitlesStore, key),
            !.after      = Rows(left.videos, left.subtitles, key),
            !.rejections = IF vOk /\ sOk THEN 0 ELSE 1]

\* the effect on urlState.currentVideoKey: the loads it starts for newKey
LoadEffect(newKey) ==
    IF newKey # currentVideoKey /\ newKey # NoKey
    THEN <<loadVideo(newKey, "loadVideo"), loadSubtitles(newKey, "loadSubtitles")>>
    ELSE <<>>

Last(s) == s[Len(s)]

restOfSession == <<currentTime, playVars, scrollVars, gateVars, ret>>

InitStoreSpec ==
    /\ subtitles = <<>>
    /\ currentTime = 0
    /\ ret = NoRet
    /\ InitPlay /\ InitScroll /\ InitGate
    /\ currentVideoKey = NoKey
    /\ videoUrl = NoKey
    /\ videos = {}
    /\ videoStore = {}
    /\ subtitlesStore = [k \in {} |-> <<>>]
    /\ responses = <<listVideos({}, NoKey, "mount")>>
    /\ lastExec = listVideos({}, NoKey, "mount")
    /\ deletedMedia = {}
    /\ deletedSubtitles = {}

MayStart == Len(responses) + 2 <= MaxPending

handleVideoImport(key) ==
    /\ MayStart
    /\ videoStore' = videoStore \cup {key}
    /\ deletedMedia' = deletedMedia \ {key}
    /\ lastExec' = [Response("saveVideo", key, "importSaved") EXCEPT !.url = key]
    /\ responses' = Append(responses, lastExec')
    /\ UNCHANGED <<subtitlesStore, deletedSubtitles, subtitles, selVars,
                   restOfSession>>

handleVideoSelect(key) ==
    /\ MayStart
    /\ key \in videos
    /\ currentVideoKey' = key
    /\ responses' = responses \o LoadEffect(key)
    /\ lastExec' = IF LoadEffect(key) = <<>> THEN lastExec
                   ELSE Last(LoadEffect(key))
    /\ UNCHANGED <<videoStore, subtitlesStore, deletedMedia, deletedSubtitles,
                   videoUrl, videos, subtitles, restOfSession>>

handleVideoDelete(key) ==
    /\ MayStart
    /\ key \in videos
    /\ \E vOk \in BOOLEAN, sOk \in BOOLEAN :
          LET left == DeleteRows(videoStore, subtitlesStore, key, vOk, sOk)
              r    == deleteVideo(key, "deleteSettled", vOk, sOk)
          IN  /\ videoStore' = left.videos
              /\ subtitlesStore' = left.subtitles
              /\ lastExec' = r
              /\ responses' = Append(responses, r)
              /\ deletedMedia' = IF r.ok THEN deletedMedia \cup {key}
                                 ELSE deletedMedia
              /\ deletedSubtitles' = IF r.ok THEN deletedSubtitles \cup {key}
                                     ELSE deletedSubtitles
    /\ UNCHANGED <<subtitles, selVars, restOfSession>>

\* saveSubtitles(videoKey, subs): one put in a readwrite transaction on the
\* subtitles store; ok says whether the put request succeeds.  A failed put
\* aborts the transaction and the promise is rejected with request.error.
saveSubtitles(videoKey, subs, cont, ok) ==
    [Response("saveSubtitles", videoKey, cont) EXCEPT
        !.ok = ok, !.subs = subs, !.prior = subtitles]

SavedRows(ss, videoKey, subs, ok) == IF ok THEN Put(ss, videoKey, subs) ELSE ss

\* handleSrtImport with a file whose text parseSRT turns into parsedSubtitles
handleSrtImport(parsedSubtitles, ok) ==
    /\ MayStart
    /\ currentVideoKey # NoKey
    /\ subtitles' = parsedSubtitles
    /\ subtitlesStore' = SavedRows(subtitlesStore, currentVideoKey, parsedSubtitles, ok)
    /\ deletedSubtitles' = IF ok THEN deletedSubtitles \ {currentVideoKey}
                           ELSE deletedSubtitles
    /\ lastExec' = saveSubtitles(currentVideoKey, parsedSubtitles, "saved", ok)
    /\ responses' = Append(responses, lastExec')
    /\ UNCHANGED <<videoStore, deletedMedia, selVars, restOfSession>>

\* continuations -----------------------------------------------------------

storeUnchanged == <<videoStore, subtitlesStore, deletedMedia, deletedSubtitles>>

MountListed(i) ==
    /\ Deliverable(i) /\ responses[i].cont = "mount"
    /\ videos' = responses[i].list
    /\ responses' = RemoveAt(responses, i)
    /\ UNCHANGED <<storeUnchanged, lastExec, currentVideoKey, videoUrl,
                   subtitles, restOfSession>>

LoadVideoThen(i) ==
    /\ Deliverable(i) /\ responses[i].cont = "loadVideo"
    /\ videoUrl' = IF responses[i].url # NoKey THEN responses[i].url
                   ELSE videoUrl
    /\ responses' = RemoveAt(responses, i)
    /\ UNCHANGED <<storeUnchanged, lastExec, currentVideoKey, videos,
                   subtitles, restOfSession>>

LoadSubtitlesThen(i) ==
    /\ Deliverable(i) /\ responses[i].cont = "loadSubtitles"
    /\ subtitles' = IF responses[i].found THEN responses[i].subs
                    ELSE subtitles
    /\ responses' = RemoveAt(responses, i)
    /\ UNCHANGED <<storeUnchanged, lastExec, selVars, restOfSession>>

ImportSaved(i) ==
    /\ Deliverable(i) /\ responses[i].cont = "importSaved"
    /\ videoUrl' = responses[i].url
    /\ lastExec' = listVideos(videoStore, responses[i].key, "importListed")
    /\ responses' = Append(RemoveAt(responses, i), lastExec')
    /\ UNCHANGED <<storeUnchanged, currentVideoKey, videos, subtitles,
                   restOfSession>>

ImportListed(i) ==
    /\ Deliverable(i) /\ responses[i].cont = "importListed"
    /\ videos' = responses[i].list
    /\ currentVideoKey' = responses[i].key
    /\ responses' = RemoveAt(responses, i) \o LoadEffect(responses[i].key)
    /\ lastExec' = IF LoadEffect(responses[i].key) = <<>> THEN lastExec
                   ELSE Last(LoadEffect(responses[i].key))
    /\ UNCHANGED <<storeUnchanged, videoUrl, subtitles, restOfSession>>

DeleteSettled(i) ==
    /\ Deliverable(i) /\ responses[i].cont = "deleteSettled"
    /\ IF responses[i].ok
       THEN /\ lastExec' = listVideos(videoStore, responses[i].key, "deleteListed")
            /\ responses' = Append(RemoveAt(responses, i), lastExec')
       ELSE /\ responses' = RemoveAt(responses, i)
            /\ UNCHANGED lastExec
    /\ UNCHANGED <<storeUnchanged, selVars, subtitles, restOfSession>>

DeleteListed(i) ==
    /\ Deliverable(i) /\ responses[i].cont = "deleteListed"
    /\ videos' = responses[i].list
    /\ currentVideoKey' = NoKey
    /\ videoUrl' = NoKey
    /\ subtitles' = <<>>
    /\ responses' = RemoveAt(responses, i)
    /\ UNCHANGED <<storeUnchanged, lastExec, restOfSession>>

\* the await of saveSubtitles in handleSrtImport is over: nothing follows it,
\* and a rejection is caught and logged with console.error
SubtitlesSaved(i) ==
    /\ Deliverable(i) /\ responses[i].cont = "saved"
    /\ responses' = RemoveAt(responses, i)
    /\ UNCHANGED <<storeUnchanged, lastExec, selVars, subtitles, restOfSession>>

NextStore ==
    \/ \E key \in Keys : handleVideoImport(key)
    \/ \E key \in Keys : handleVideoSelect(key)
    \/ \E key \in Keys : handleVideoDelete(key)
    \/ \E parsed \in StoredTranscripts, ok \in BOOLEAN : handleSrtImport(parsed, ok)
    \/ \E i \in 1..Len(responses) : MountListed(i)
    \/ \E i \in 1..Len(responses) : LoadVideoThen(i)
    \/ \E i \in 1..Len(responses) : LoadSubtitlesThen(i)
    \/ \E i \in 1..Len(responses) : ImportSaved(i)
    \/ \E i \in 1..Len(responses) : ImportListed(i)
    \/ \E i \in 1..Len(responses) : DeleteSettled(i)
    \/ \E i \in 1..Len(responses) : DeleteListed(i)
    \/ \E i \in 1..Len(responses) : SubtitlesSaved(i)

SpecStore == InitStoreSpec /\ [][NextStore]_vars

(***************************************************************************)
(* Claims checked under SpecStore                                          *)
(***************************************************************************)

\* C6: once deleteVideo(key) has resolved, and whatever saves and deletes on
\* any keys came before it, a listVideos() that runs afterwards does not list
\* key and a loadSubtitles(key) that runs afterwards finds nothing, for as
\* long as no later saveVideo / saveSubtitles writes that key again.
C6_DeletedKeyIsGone ==
    /\ lastExec.op = "listVideos" => lastExec.list \cap deletedMedia = {}
    /\ (lastExec.op = "loadSubtitles" /\ lastExec.key \in deletedSubtitles)
          => (~lastExec.found /\ lastExec.subs = <<>>)

\* a key that was listed is selected again after its delete resolved: its
\* subtitles are looked up while the list refresh of the delete, taken with
\* the other key still stored, awaits its continuation
C6_Witness ==
    /\ lastExec.op = "loadSubtitles" /\ lastExec.key \in deletedSubtitles
    /\ lastExec.key \in deletedMedia /\ ~lastExec.found
    /\ \E i \in 1..Len(responses) :
          /\ responses[i].op = "listVideos" /\ responses[i].cont = "deleteListed"
          /\ responses[i].key = lastExec.key
          /\ responses[i].list # {} /\ lastExec.key \notin responses[i].list

\* C7: deleteVideo(key) removes the video row and the subtitles row together
\* or not at all; when it resolves both rows are gone; when either request
\* fails the caller gets exactly one rejection and no resolution.
C7_DeleteAtomic ==
    lastExec.op = "deleteVideo" =>
        /\ lastExec.after = lastExec.before \/ lastExec.after = NoRows
        /\ lastExec.ok => (lastExec.after = NoRows /\ lastExec.rejections = 0)
        /\ (~lastExec.requests.video \/ ~lastExec.requests.subtitles)
              => (~lastExec.ok /\ lastExec.rejections = 1)
        /\ \A i \in 1..Len(responses) :
              responses[i].op = "deleteVideo" =>
                  (responses[i].ok <=> responses[i].rejections = 0)

\* a delete of a key holding both rows in which exactly one request failed
C7_Witness ==
    /\ lastExec.op = "deleteVideo"
    /\ lastExec.before = [video |-> TRUE, subtitles |-> TRUE]
    /\ lastExec.requests.video # lastExec.requests.subtitles
    /\ ~lastExec.ok
    /\ lastExec.key \in videoStore /\ lastExec.key \in DOMAIN subtitlesStore

\* C8: a loadVideo / loadSubtitles answer for key A whose continuation runs
\* when A is no longer the selected key is not applied to the session: it
\* leaves the video URL and the subtitles as they were.
C8_StaleResponseIgnored ==
    [][\A i \in 1..Len(responses) :
          ( /\ responses[i].cont \in {"loadVideo", "loadSubtitles"}
            /\ responses[i].key # currentVideoKey
            /\ responses' = RemoveAt(responses, i) )
          => UNCHANGED <<videoUrl, subtitles>>]_vars

(***************************************************************************)
(* Control-Mode Gate: the keydown handler and what it dispatches to.       *)
(***************************************************************************)

MaxVolumeSteps == 1      \* volume keys are followed this far from the initial 0.8

\* volume is an IEEE double.  Every double that Math.min(1, v + 0.1) and
\* Math.max(0, v - 0.1) produce from the initial 0.8, with the double each of
\* the two expressions yields from it (up, down) and the least number of key
\* presses that reaches it (steps).  0.8 - 0.1 is 0.7000000000000001, and the
\* descent from there ends in 1.3877787807814457e-16 before it ends in 0.
VolumeTable ==
    { [v |-> "0.8", up |-> "0.9", down |-> "0.7000000000000001", steps |-> 0],
      [v |-> "0.7000000000000001", up |-> "0.8", down |-> "0.6000000000000001", steps |-> 1],
      [v |-> "0.9", up |-> "1", down |-> "0.8", steps |-> 1],
      [v |-> "0.6000000000000001", up |-> "0.7000000000000001", down |-> "0.5000000000000001", steps |-> 2],
      [v |-> "1", up |-> "1", down |-> "0.9", steps |-> 2],
      [v |-> "0.5000000000000001", up |-> "0.6000000000000001", down |-> "0.40000000000000013", steps |-> 3],
      [v |-> "0.40000000000000013", up |-> "0.5000000000000001", down |-> "0.30000000000000016", steps |-> 4],
      [v |-> "0.30000000000000016", up |-> "0.40000000000000013", down |-> "0.20000000000000015", steps |-> 5],
      [v |-> "0.20000000000000015", up |-> "0.30000000000000016", down |-> "0.10000000000000014", steps |-> 6],
      [v |-> "0.10000000000000014", up |-> "0.20000000000000015", down |-> "1.3877787807814457e-16", steps |-> 7],
      [v |-> "1.3877787807814457e-16", up |-> "0.10000000000000014", down |-> "0", steps |-> 8],
      [v |-> "0", up |-> "0.1", down |-> "0", steps |-> 9],
      [v |-> "0.1", up |-> "0.2", down |-> "0", steps |-> 10],
      [v |-> "0.2", up |-> "0.30000000000000004", down |-> "0.1", steps |-> 11],
      [v |-> "0.30000000000000004", up |-> "0.4", down |-> "0.20000000000000004", steps |-> 12],
      [v |-> "0.20000000000000004", up |-> "0.30000000000000004", down |-> "0.10000000000000003", steps |-> 13],
      [v |-> "0.4", up |-> "0.5", down |-> "0.30000000000000004", steps |-> 13],
      [v |-> "0.10000000000000003", up |-> "0.20000000000000004", down |-> "2.7755575615628914e-17", steps |-> 14],
      [v |-> "0.5", up |-> "0.6", down |-> "0.4", steps |-> 14],
      [v |-> "2.7755575615628914e-17", up |-> "0.10000000000000003", down |-> "0", steps |-> 15],
      [v |-> "0.6", up |-> "0.7", down |-> "0.5", steps |-> 15],
      [v |-> "0.7", up |-> "0.7999999999999999", down |-> "0.6", steps |-> 16],
      [v |-> "0.7999999999999999", up |-> "0.8999999999999999", down |-> "0.7", steps |-> 17],
      [v |-> "0.8999999999999999", up |-> "0.9999999999999999", down |-> "0.7999999999999999", steps |-> 18],
      [v |-> "0.9999999999999999", up |-> "1", down |-> "0.8999999999999999", steps |-> 19] }

VolumeRow == [v \in {r.v : r \in VolumeTable} |-> CHOOSE r \in VolumeTable : r.v = v]

\* e.key of the events considered, and e.key.toLowerCase()
KeyEvents == {"a", "d", "r", "s", "h", "m", "ArrowUp", "ArrowDown", "e", "E", "x"}

toLowerCase(key) ==
    CASE key = "ArrowUp"   -> "arrowup"
      [] key = "ArrowDown" -> "arrowdown"
      [] key = "E"         -> "e"
      [] OTHER             -> key

\* the transcripts of the keyboard specification: none, two entries with a
\* gap, two overlapping entries of one id, and one whose second entry has no
\* end time (the render throws once that entry has started)
KeyTranscripts ==
    { <<>>,
      <<Entry(1, S1, S1), Entry(2, S2, S2)>>,
      <<Entry(7, S1, S2), Entry(7, S2, S2)>>,
      <<Entry(1, S1, S1), Entry(2, S2, Undefined)>> }

\* the early return of handleKeyDown, negated
GateOpenIgnoringDialog == isControlModeEnabled

GateOpen == ~(~isControlModeEnabled \/ isEditDialogOpen)

\* what one run of the handler leaves: the values of the state it can set,
\* whether preventDefault was called, the switch cases entered, the number of
\* playerRef.seekTo calls and the last one's argument, whether it threw
Untouched(key) ==
    [key |-> key, prevented |-> FALSE, actions |-> <<>>, seeks |-> 0,
     seek |-> lastSeek, threw |-> FALSE,
     isPlaying |-> isPlaying, isSubtitlesVisible |-> isSubtitlesVisible,
     isMuted |-> isMuted, volume |-> volume,
     isEditDialogOpen |-> isEditDialogOpen, selectedSubtitle |-> selectedSubtitle]

Entered(key, action) ==
    [Untouched(key) EXCEPT !.prevented = TRUE, !.actions = <<action>>]

\* handleSeek without its setIsPlaying(true)
handleSeekKeepingPlayState(timeStr, o) ==
    LET seconds == timeToSeconds(timeStr)
    IN  IF seconds.kind = "TypeError" THEN [o EXCEPT !.threw = TRUE]
        ELSE IF videoUrl # NoKey
        THEN [o EXCEPT !.seeks = o.seeks + 1,
                       !.seek = [requested |-> TRUE, seconds |-> seconds]]
        ELSE o

\* handleSeek: seekTo and setIsPlaying(true), if the player is mounted
handleSeek(timeStr, o) ==
    LET seconds == timeToSeconds(timeStr)
    IN  IF seconds.kind = "TypeError" THEN [o EXCEPT !.threw = TRUE]
        ELSE IF videoUrl # NoKey
        THEN [o EXCEPT !.seeks = o.seeks + 1,
                       !.seek = [requested |-> TRUE, seconds |-> seconds],
                       !.isPlaying = TRUE]
        ELSE o

\* handleVolumeChange and handleMuteToggle as the registered handler holds
\* them: they read the isMuted it captured
handleVolumeChange(newVolume, o) ==
    [o EXCEPT !.volume = newVolume,
              !.isMuted = IF newVolume = "0" THEN TRUE
                          ELSE IF boundIsMuted THEN FALSE
                          ELSE o.isMuted]

handleMuteToggle(o) == [o EXCEPT !.isMuted = ~boundIsMuted]

\* handleEditCurrentSubtitle leaving the entry's startTime as it is
handleEditCurrentSubtitleKeepingStart(o, currentSubs, index) ==
    IF currentSubs.threw THEN [o EXCEPT !.isPlaying = FALSE, !.threw = TRUE]
    ELSE IF Len(currentSubs.val) > 0
    THEN [o EXCEPT !.isPlaying = FALSE,
                   !.selectedSubtitle = currentSubs.val[1],
                   !.isEditDialogOpen = TRUE]
    ELSE IF index.threw THEN [o EXCEPT !.isPlaying = FALSE, !.threw = TRUE]
    ELSE IF index.val # -1 /\ index.val < Len(subtitles)
    THEN [o EXCEPT !.isPlaying = FALSE,
                   !.selectedSubtitle = subtitles[index.val + 1],
                   !.isEditDialogOpen = TRUE]
    ELSE [o EXCEPT !.isPlaying = FALSE]

\* handleEditCurrentSubtitle; currentSubs and index are what its calls of
\* getCurrentSubtitles() and getCurrentSubtitleIndex() return
handleEditCurrentSubtitle(o, currentSubs, index) ==
    IF currentSubs.threw THEN [o EXCEPT !.isPlaying = FALSE, !.threw = TRUE]
    ELSE IF Len(currentSubs.val) > 0
    THEN [o EXCEPT !.isPlaying = FALSE,
                   !.selectedSubtitle =
                       [currentSubs.val[1] EXCEPT
                           !.startTime = secondsToTimeStr(currentTime)],
                   !.isEditDialogOpen = TRUE]
    ELSE IF index.threw THEN [o EXCEPT !.isPlaying = FALSE, !.threw = TRUE]
    ELSE IF index.val # -1 /\ index.val < Len(subtitles)
    THEN [o EXCEPT !.isPlaying = FALSE,
                   !.selectedSubtitle =
                       [subtitles[index.val + 1] EXCEPT
                           !.startTime = secondsToTimeStr(currentTime)],
                   !.isEditDialogOpen = TRUE]
    ELSE [o EXCEPT !.isPlaying = FALSE]

\* handleKeyDown whose "a" case seeks to the entry at currentIndex
handleKeyDownPreviousIsCurrent(key, currentIndex, currentSubs) ==
    IF ~GateOpen THEN Untouched(key)
    ELSE IF currentIndex.threw THEN [Untouched(key) EXCEPT !.threw = TRUE]
    ELSE CASE toLowerCase(key) = "a" ->
                IF currentIndex.val > 0
                THEN handleSeek(subtitles[currentIndex.val + 1].startTime,
                                Entered(key, "a"))
                ELSE Entered(key, "a")
           [] toLowerCase(key) = "d" ->
                IF currentIndex.val < Len(subtitles) - 1
                THEN handleSeek(subtitles[currentIndex.val + 2].startTime,
                                Entered(key, "d"))
                ELSE Entered(key, "d")
           [] toLowerCase(key) = "r" ->
                IF currentSubs.threw
                THEN [Entered(key, "r") EXCEPT !.threw = TRUE]
                ELSE IF Len(currentSubs.val) > 0
                THEN handleSeek(currentSubs.val[1].startTime, Entered(key, "r"))
                ELSE Entered(key, "r")
           [] toLowerCase(key) = "s" ->
                [Entered(key, "s") EXCEPT !.isPlaying = ~isPlaying]
           [] toLowerCase(key) = "h" ->
                [Entered(key, "h") EXCEPT !.isSubtitlesVisible = ~isSubtitlesVisible]
           [] toLowerCase(key) = "m" -> handleMuteToggle(Entered(key, "m"))
           [] toLowerCase(key) = "arrowup" ->
                handleVolumeChange(VolumeRow[volume].up, Entered(key, "arrowup"))
           [] toLowerCase(key) = "arrowdown" ->
                handleVolumeChange(VolumeRow[volume].down, Entered(key, "arrowdown"))
           [] toLowerCase(key) = "e" ->
                handleEditCurrentSubtitle(Entered(key, "e"), currentSubs, currentIndex)
           [] OTHER -> Untouched(key)

\* handleKeyDown whose "r" case falls back to the entry at currentIndex
handleKeyDownRepeatFallsBack(key, currentIndex, currentSubs) ==
    IF ~GateOpen THEN Untouched(key)
    ELSE IF currentIndex.threw THEN [Untouched(key) EXCEPT !.threw = TRUE]
    ELSE CASE toLowerCase(key) = "a" ->
                IF currentIndex.val > 0
                THEN handleSeek(subtitles[currentIndex.val].startTime,
                                Entered(key, "a"))
                ELSE Entered(key, "a")
           [] toLowerCase(key) = "d" ->
                IF currentIndex.val < Len(subtitles) - 1
                THEN handleSeek(subtitles[currentIndex.val + 2].startTime,
                                Entered(key, "d"))
                ELSE Entered(key, "d")
           [] toLowerCase(key) = "r" ->
                IF currentSubs.threw
                THEN [Entered(key, "r") EXCEPT !.threw = TRUE]
                ELSE IF Len(currentSubs.val) > 0
                THEN handleSeek(currentSubs.val[1].startTime, Entered(key, "r"))
                ELSE IF currentIndex.val # -1
                THEN handleSeek(subtitles[currentIndex.val + 1].startTime,
                                Entered(key, "r"))
                ELSE Entered(key, "r")
           [] toLowerCase(key) = "s" ->
                [Entered(key, "s") EXCEPT !.isPlaying = ~isPlaying]
           [] toLowerCase(key) = "h" ->
                [Entered(key, "h") EXCEPT !.isSubtitlesVisible = ~isSubtitlesVisible]
           [] toLowerCase(key) = "m" -> handleMuteToggle(Entered(key, "m"))
           [] toLowerCase(key) = "arrowup" ->
                handleVolumeChange(VolumeRow[volume].up, Entered(key, "arrowup"))
           [] toLowerCase(key) = "arrowdown" ->
                handleVolumeChange(VolumeRow[volume].down, Entered(key, "arrowdown"))
           [] toLowerCase(key) = "e" ->
                handleEditCurrentSubtitle(Entered(key, "e"), currentSubs, currentIndex)
           [] OTHER -> Untouched(key)

\* handleKeyDown(e) with e.key = key; currentIndex and currentSubs are what
\* getCurrentSubtitleIndex() and getCurrentSubtitles() return where the handler
\* calls them, or that they threw
handleKeyDown(key, currentIndex, currentSubs) ==
    IF ~GateOpen THEN Untouched(key)
    ELSE IF currentIndex.threw THEN [Untouched(key) EXCEPT !.threw = TRUE]
    ELSE CASE toLowerCase(key) = "a" ->
                IF currentIndex.val > 0
                THEN handleSeek(subtitles[currentIndex.val].startTime,
                                Entered(key, "a"))
                ELSE Entered(key, "a")
           [] toLowerCase(key) = "d" ->
                IF currentIndex.val < Len(subtitles) - 1
                THEN handleSeek(subtitles[currentIndex.val + 2].startTime,
                                Entered(key, "d"))
                ELSE Entered(key, "d")
           [] toLowerCase(key) = "r" ->
                IF currentSubs.threw
                THEN [Entered(key, "r") EXCEPT !.threw = TRUE]
                ELSE IF Len(currentSubs.val) > 0
                THEN handleSeek(currentSubs.val[1].startTime, Entered(key, "r"))
                ELSE Entered(key, "r")
           [] toLowerCase(key) = "s" ->
                [Entered(key, "s") EXCEPT !.isPlaying = ~isPlaying]
           [] toLowerCase(key) = "h" ->
                [Entered(key, "h") EXCEPT !.isSubtitlesVisible = ~isSubtitlesVisible]
           [] toLowerCase(key) = "m" -> handleMuteToggle(Entered(key, "m"))
           [] toLowerCase(key) = "arrowup" ->
                handleVolumeChange(VolumeRow[volume].up, Entered(key, "arrowup"))
           [] toLowerCase(key) = "arrowdown" ->
                handleVolumeChange(VolumeRow[volume].down, Entered(key, "arrowdown"))
           [] toLowerCase(key) = "e" ->
                handleEditCurrentSubtitle(Entered(key, "e"), currentSubs, currentIndex)
           [] OTHER -> Untouched(key)

keysFrame == <<subtitles, currentTime, mounted, isUserScrolling, scrollTimeoutRef, now,
               timers, nextTimerId, lastScrollAt, clearedDue, selVars, storeVars, ret>>

InitKeys ==
    /\ subtitles \in KeyTranscripts
    /\ currentTime = 0
    /\ ret = NoRet
    /\ InitPlay /\ InitScroll /\ InitGate /\ InitStore
    /\ currentVideoKey = NoKey
    /\ videoUrl \in {NoKey, "a"}
    /\ videoUrl = NoKey => subtitles = <<Entry(1, S1, S1), Entry(2, S2, S2)>>
    /\ videos = {}

\* the state the handler leaves, and what the event and the player saw of it
Handled(o) ==
    /\ lastKey' = [handled |-> TRUE, prevented |-> o.prevented]
    /\ lastSeek' = IF o.seeks > 0 THEN o.seek ELSE NoSeek
    /\ isPlaying' = o.isPlaying
    /\ isSubtitlesVisible' = o.isSubtitlesVisible
    /\ isMuted' = o.isMuted
    /\ volume' = o.volume
    /\ isEditDialogOpen' = o.isEditDialogOpen
    /\ selectedSubtitle' = o.selectedSubtitle

\* a keydown event reaches the registered listener
KeyDownAt(key, currentIndex, currentSubs) ==
    /\ mounted
    /\ UNCHANGED <<isControlModeEnabled, keysFrame>>
    /\ Handled(handleKeyDown(key, currentIndex, currentSubs))
    /\ VolumeRow[volume'].steps <= MaxVolumeSteps
    /\ AfterRender
    /\ KeydownEffect

KeyDown(key) ==
    KeyDownAt(key, getCurrentSubtitleIndex(subtitles, currentTime),
              getCurrentSubtitles(subtitles, currentTime))

\* the control mode button
ToggleControlMode ==
    /\ mounted
    /\ isControlModeEnabled' = ~isControlModeEnabled
    /\ UNCHANGED <<isEditDialogOpen, selectedSubtitle, isSubtitlesVisible, volume,
                   isMuted, lastKey, lastSeek, isPlaying, keysFrame>>
    /\ AfterRender
    /\ KeydownEffect

\* handleEditSubtitle: the edit button of a listed subtitle
handleEditSubtitle(subtitle) ==
    /\ mounted
    /\ ~isEditDialogOpen
    /\ selectedSubtitle' = subtitle
    /\ isEditDialogOpen' = TRUE
    /\ UNCHANGED <<isControlModeEnabled, isSubtitlesVisible, volume, isMuted,
                   lastKey, lastSeek, isPlaying, keysFrame>>
    /\ AfterRender
    /\ KeydownEffect

\* onClose of the edit dialog
CloseEditDialog ==
    /\ mounted
    /\ isEditDialogOpen
    /\ isEditDialogOpen' = FALSE
    /\ UNCHANGED <<isControlModeEnabled, selectedSubtitle, isSubtitlesVisible,
                   volume, isMuted, lastKey, lastSeek, isPlaying, keysFrame>>
    /\ AfterRender
    /\ KeydownEffect

NextKeys ==
    \/ \E key \in KeyEvents : KeyDown(key)
    \/ ToggleControlMode
    \/ \E i \in 1..Len(subtitles) : handleEditSubtitle(subtitles[i])
    \/ CloseEditDialog
    \/ handleProgress

SpecKeys == InitKeys /\ [][NextKeys]_vars

(***************************************************************************)
(* Claims checked under SpecKeys                                           *)
(***************************************************************************)

\* the keys of the binding table: the case labels of handleKeyDown
BoundKeys == {"a", "d", "r", "s", "h", "m", "arrowup", "arrowdown", "e"}

\* the session state a step changes
Changed ==
    (IF subtitles' # subtitles THEN {"subtitles"} ELSE {}) \cup
    (IF currentTime' # currentTime THEN {"currentTime"} ELSE {}) \cup
    (IF isPlaying' # isPlaying THEN {"isPlaying"} ELSE {}) \cup
    (IF isControlModeEnabled' # isControlModeEnabled
     THEN {"isControlModeEnabled"} ELSE {}) \cup
    (IF isSubtitlesVisible' # isSubtitlesVisible
     THEN {"isSubtitlesVisible"} ELSE {}) \cup
    (IF isMuted' # isMuted THEN {"isMuted"} ELSE {}) \cup
    (IF volume' # volume THEN {"volume"} ELSE {}) \cup
    (IF isEditDialogOpen' # isEditDialogOpen THEN {"isEditDialogOpen"} ELSE {}) \cup
    (IF selectedSubtitle' # selectedSubtitle THEN {"selectedSubtitle"} ELSE {})

\* what each action of the table may change
Footprint(action) ==
    CASE action \in {"a", "d", "r"}          -> {"isPlaying"}
      [] action = "s"                        -> {"isPlaying"}
      [] action = "h"                        -> {"isSubtitlesVisible"}
      [] action = "m"                        -> {"isMuted"}
      [] action \in {"arrowup", "arrowdown"} -> {"volume", "isMuted"}
      [] action = "e" -> {"isPlaying", "isEditDialogOpen", "selectedSubtitle"}

\* a key event that did nothing: o is what the handler reports of its run
KeyIgnored(o) ==
    /\ Changed = {}
    /\ ~o.prevented /\ ~lastKey'.prevented
    /\ o.actions = <<>>
    /\ o.seeks = 0 /\ lastSeek' = NoSeek

\* a key event that ran the table's action for the key named bound, and
\* nothing else
KeyDispatched(bound, o) ==
    /\ o.prevented /\ lastKey'.prevented
    /\ o.actions = <<bound>>
    /\ Changed \subseteq Footprint(bound)
    /\ o.seeks <= 1
    /\ o.seeks = 1 => bound \in {"a", "d", "r"}
    /\ lastSeek'.requested <=> o.seeks = 1

\* every key event of a step obeys the gate
KeysGated(currentIndex, currentSubs) ==
    \A key \in KeyEvents :
        KeyDownAt(key, currentIndex, currentSubs) =>
            IF ~isControlModeEnabled \/ isEditDialogOpen
            THEN KeyIgnored(handleKeyDown(key, currentIndex, currentSubs))
            ELSE toLowerCase(key) \in BoundKeys =>
                     KeyDispatched(toLowerCase(key),
                                   handleKeyDown(key, currentIndex, currentSubs))

\* C9: while control mode is disabled or the edit dialog is open, a keydown
\* event calls no preventDefault, seeks nowhere and changes nothing of the
\* session; while control mode is enabled and the dialog is closed, every
\* bound key calls preventDefault and enters exactly one action of the table,
\* its own, which changes nothing outside that action's reach and seeks only
\* if it is a navigation action.
C9_ControlModeGate ==
    [][KeysGated(getCurrentSubtitleIndex(subtitles, currentTime),
                 getCurrentSubtitles(subtitles, currentTime))]_vars

\* the "e" key has opened the dialog on an entry with a rewritten start, and a
\* later key event found the dialog open and was left alone
C9_Witness ==
    /\ isControlModeEnabled /\ isEditDialogOpen
    /\ lastKey.handled /\ ~lastKey.prevented
    /\ \E i \in 1..Len(subtitles) :
          /\ selectedSubtitle.id = subtitles[i].id
          /\ selectedSubtitle.startTime # subtitles[i].startTime
          /\ selectedSubtitle.startTime = secondsToTimeStr(currentTime)

\* C10: with the gate open, the "e" key leaves playback paused and, when an
\* entry contains the current time or some entry has started, leaves the
\* dialog open on the first containing entry, else on the last started one,
\* with startTime = secondsToTimeStr(currentTime) and id, endTime and text
\* as in the transcript.
C10_EditCurrent ==
    [][\A key \in {k \in KeyEvents : toLowerCase(k) = "e"} :
          ( /\ isControlModeEnabled /\ ~isEditDialogOpen
            /\ KeyDown(key) )
          => LET P      == ParsedTimes(subtitles)
                 C      == ContainingAt(P, currentTime)
                 index  == ActiveIndexOf(P, currentTime)
                 target == IF C # {} THEN subtitles[MinOf(C)]
                           ELSE subtitles[index + 1]
             IN  /\ isPlaying' = FALSE
                 /\ (C # {} \/ index # -1) =>
                       /\ isEditDialogOpen' = TRUE
                       /\ selectedSubtitle' =
                             [id        |-> target.id,
                              startTime |-> secondsToTimeStr(currentTime),
                              endTime   |-> target.endTime,
                              text      |-> target.text]
      ]_vars

\* the "e" key pressed in a gap: no entry contains the current time, and the
\* dialog is open on the last started entry with its start moved to that time
C10_Witness ==
    LET P     == ParsedTimes(subtitles)
        index == ActiveIndexOf(P, currentTime)
    IN  /\ mounted /\ lastKey.prevented /\ isEditDialogOpen /\ ~isPlaying
        /\ ContainingAt(P, currentTime) = {}
        /\ index # -1
        /\ selectedSubtitle =
              [subtitles[index + 1] EXCEPT
                  !.startTime = secondsToTimeStr(currentTime)]
        /\ selectedSubtitle.startTime # subtitles[index + 1].startTime

\* C11: with the gate open, no entry containing the current time and no entry
\* started (activeIndex is -1, the empty transcript included), the "e" key
\* changes nothing of the session: not the playing state, not the selected
\* entry, not the dialog flag, not the transcript.
C11_EditCurrentNoOp ==
    [][\A key \in {k \in KeyEvents : toLowerCase(k) = "e"} :
          ( /\ isControlModeEnabled /\ ~isEditDialogOpen
            /\ ContainingAt(ParsedTimes(subtitles), currentTime) = {}
            /\ ActiveIndexOf(ParsedTimes(subtitles), currentTime) = -1
            /\ KeyDown(key) )
          => UNCHANGED <<isPlaying, selectedSubtitle, isEditDialogOpen, subtitles>>
      ]_vars

(***************************************************************************)
(* Editing: the edit dialog, handleSaveSubtitle and the subtitle import,   *)
(* with storage writes that may fail.                                      *)
(***************************************************************************)

\* the transcripts of the editing specification: distinct ids, and one id
\* used by two entries (parseSRT takes the id of a block as it is written)
EditTranscripts ==
    { <<Entry(1, S1, S1), Entry(2, S2, S2)>>,
      <<Entry(7, S1, S1), Entry(7, S2, S2)>> }

\* what the dialog's fields can turn its subtitle into: the id has no field
DialogEdits(subtitle) ==
    { [subtitle EXCEPT !.text = "edited"],
      [subtitle EXCEPT !.endTime = S2, !.text = "edited"] }

\* subtitles.map((sub) => sub.id === editedSubtitle.id ? editedSubtitle : sub)
updatedSubtitles(subs, editedSubtitle) ==
    [i \in 1..Len(subs) |->
        IF subs[i].id = editedSubtitle.id THEN editedSubtitle ELSE subs[i]]

\* handleSaveSubtitle(editedSubtitle); ok: whether the put of saveSubtitles
\* succeeds
handleSaveSubtitle(editedSubtitle, ok) ==
    IF currentVideoKey = NoKey
    THEN UNCHANGED <<subtitles, storeVars>>
    ELSE LET updated == updatedSubtitles(subtitles, editedSubtitle)
         IN  /\ subtitles' = updated
             /\ subtitlesStore' = SavedRows(subtitlesStore, currentVideoKey, updated, ok)
             /\ deletedSubtitles' = IF ok THEN deletedSubtitles \ {currentVideoKey}
                                    ELSE deletedSubtitles
             /\ lastExec' = saveSubtitles(currentVideoKey, updated, "editSaved", ok)
             /\ responses' = Append(responses, lastExec')
             /\ UNCHANGED <<videoStore, deletedMedia>>

\* handleSave of EditSubtitleDialog: onSave(editedSubtitle), then onClose()
handleSave(editedSubtitle, ok) ==
    /\ mounted
    /\ isEditDialogOpen
    /\ MayStart
    /\ handleSaveSubtitle(editedSubtitle, ok)
    /\ isEditDialogOpen' = FALSE
    /\ mounted' = Renders(subtitles', currentTime)
    /\ UNCHANGED <<isControlModeEnabled, selectedSubtitle, isSubtitlesVisible,
                   volume, isMuted, lastKey, lastSeek, isPlaying, currentTime,
                   isUserScrolling, scrollTimeoutRef, now, timers, nextTimerId,
                   lastScrollAt, clearedDue, selVars, ret>>
    /\ AfterRender
    /\ KeydownEffect

\* the await of saveSubtitles in handleSaveSubtitle is over: nothing follows
\* it, and a rejection is caught and logged with console.error
EditSaved(i) ==
    /\ Deliverable(i) /\ responses[i].cont = "editSaved"
    /\ responses' = RemoveAt(responses, i)
    /\ UNCHANGED <<storeUnchanged, lastExec, selVars, subtitles, restOfSession>>

\* a video is selected and shown, with or without a transcript stored for it
InitEdit ==
    /\ currentTime = 0
    /\ ret = NoRet
    /\ InitPlay /\ InitScroll /\ InitGate
    /\ currentVideoKey = "a"
    /\ videoUrl = "a"
    /\ videos = {"a"}
    /\ videoStore = {"a"}
    /\ \E stored \in EditTranscripts \cup {<<>>} :
          /\ subtitles = stored
          /\ subtitlesStore = IF stored = <<>> THEN [k \in {} |-> <<>>]
                              ELSE [k \in {"a"} |-> stored]
    /\ responses = <<>>
    /\ lastExec = NoExec
    /\ deletedMedia = {}
    /\ deletedSubtitles = {}

\* the dialog is modal: the import input is out of reach while it is open
NextEdit ==
    \/ \E parsed \in EditTranscripts, ok \in BOOLEAN :
          ~isEditDialogOpen /\ handleSrtImport(parsed, ok)
    \/ \E i \in 1..Len(subtitles) : handleEditSubtitle(subtitles[i])
    \/ \E edited \in DialogEdits(selectedSubtitle), ok \in BOOLEAN :
          handleSave(edited, ok)
    \/ CloseEditDialog
    \/ \E i \in 1..Len(responses) : SubtitlesSaved(i)
    \/ \E i \in 1..Len(responses) : EditSaved(i)

SpecEdit == InitEdit /\ [][NextEdit]_vars

(***************************************************************************)
(* Claims checked under SpecEdit                                           *)
(***************************************************************************)

\* a step in which handleSaveSubtitle called saveSubtitles
SaveStep ==
    /\ responses' = Append(responses, lastExec')
    /\ lastExec'.cont = "editSaved"

\* C12: saving the dialog's entry replaces exactly one entry of the live
\* transcript, one whose id is the id of the edited entry, keeps every other
\* entry, the order and the length, and writes the whole updated sequence
\* under the selected key; also when ids occur more than once.
C12_SaveReplacesOne ==
    [][SaveStep =>
          /\ \E edited \in DialogEdits(selectedSubtitle) :
                \E i \in 1..Len(subtitles) :
                    /\ subtitles[i].id = edited.id
                    /\ subtitles' = [subtitles EXCEPT ![i] = edited]
          /\ lastExec'.key = currentVideoKey
          /\ lastExec'.subs = subtitles'
          /\ lastExec'.ok => subtitlesStore'[currentVideoKey] = subtitles'
      ]_vars

(***************************************************************************)
(* Seeking: the timestamp button and the navigation keys.                  *)
(***************************************************************************)

\* the keys that seek, and the play / pause key
SeekKeys == {"a", "d", "r", "s"}

\* what handleSeek leaves when called from a button
Clicked(o) ==
    /\ lastSeek' = IF o.seeks > 0 THEN o.seek ELSE NoSeek
    /\ isPlaying' = o.isPlaying

\* the timestamp button of a listed subtitle: handleSeek(subtitle.startTime)
TimestampClick(subtitle) ==
    /\ mounted
    /\ isSubtitlesVisible
    /\ ~isEditDialogOpen
    /\ UNCHANGED <<isControlModeEnabled, isSubtitlesVisible, isMuted, volume,
                   isEditDialogOpen, selectedSubtitle, lastKey, keysFrame>>
    /\ Clicked(handleSeek(subtitle.startTime, Untouched(NoKey)))
    /\ AfterRender
    /\ KeydownEffect

NextSeek ==
    \/ \E key \in SeekKeys : KeyDown(key)
    \/ \E i \in 1..Len(subtitles) : TimestampClick(subtitles[i])
    \/ handleProgress

SpecSeek == InitKeys /\ [][NextSeek]_vars

(***************************************************************************)
(* Claims checked under SpecSeek                                           *)
(***************************************************************************)

\* the entry a navigation key asks to seek to, as a set: 1-based positions
SeekTargets(key) ==
    LET P     == ParsedTimes(subtitles)
        index == ActiveIndexOf(P, currentTime)
        C     == ContainingAt(P, currentTime)
    IN  CASE key = "a" -> IF index - 1 >= 0 THEN {index} ELSE {}
          [] key = "d" -> IF index + 1 < Len(subtitles) THEN {index + 2} ELSE {}
          [] key = "r" -> IF C # {} THEN {MinOf(C)} ELSE {}
          [] OTHER     -> {}

\* a seek to the start of entry i was requested and playback is on
SoughtAndPlaying(i) ==
    /\ lastSeek' = [requested |-> TRUE,
                    seconds   |-> timeToSeconds(subtitles[i].startTime)]
    /\ isPlaying' = TRUE

\* every seek command of a step: the button of entry i, or a navigation key
\* that has a target
SeekCommandsObeyed(playerNeeded) ==
    /\ \A i \in 1..Len(subtitles) :
          (TimestampClick(subtitles[i]) /\ (playerNeeded => videoUrl # NoKey))
             => SoughtAndPlaying(i)
    /\ \A key \in {"a", "d", "r"} : \A i \in SeekTargets(key) :
          (GateOpen /\ KeyDown(key) /\ (playerNeeded => videoUrl # NoKey))
             => SoughtAndPlaying(i)

\* C13 as stated: every seek command (timestamp button, previous, next,
\* repeat) requests a seek to timeToSeconds(entryStart) and leaves playback
\* playing, whatever the state before.
C13_SeekAlwaysPlays == [][SeekCommandsObeyed(FALSE)]_vars

\* C13, amended: while a player is mounted (a video URL is set), every seek
\* command requests a seek to timeToSeconds(entryStart) and leaves playback
\* playing, whatever the playing state before; while no player is mounted a
\* seek command requests nothing and leaves the playing state as it was.
C13_SeekPlaysWithPlayer ==
    [][/\ SeekCommandsObeyed(TRUE)
       /\ \A i \in 1..Len(subtitles) :
             (TimestampClick(subtitles[i]) /\ videoUrl = NoKey)
                => (lastSeek' = NoSeek /\ isPlaying' = isPlaying)
       /\ \A key \in {"a", "d", "r"} :
             (GateOpen /\ KeyDown(key) /\ videoUrl = NoKey)
                => (lastSeek' = NoSeek /\ isPlaying' = isPlaying)
      ]_vars

\* a key has requested a seek with a player mounted: playback is on and the
\* seek is at the start of an entry that lies after the current time
C13_Witness ==
    /\ videoUrl # NoKey /\ mounted
    /\ lastSeek.requested /\ isPlaying
    /\ lastKey.handled
    /\ \E i \in 1..Len(subtitles) :
          /\ lastSeek.seconds = timeToSeconds(subtitles[i].startTime)
          /\ lastSeek.seconds.kind = "num"
          /\ lastSeek.seconds.v > currentTime

\* what a seek command for entry i comes to: with a player mounted the seek
\* is requested and playback is on, with none nothing is requested
SeekOutcome(i) ==
    IF videoUrl # NoKey THEN SoughtAndPlaying(i)
    ELSE lastSeek' = NoSeek /\ isPlaying' = isPlaying

\* a navigation key obeys its rule: with a target, the seek command for the
\* target; with none, no seek and the playing state as it was
NavigationObeyed(key) ==
    (GateOpen /\ KeyDown(key)) =>
        /\ SeekTargets(key) \subseteq 1..Len(subtitles)
        /\ IF SeekTargets(key) # {}
           THEN \A i \in SeekTargets(key) : SeekOutcome(i)
           ELSE lastSeek' = NoSeek /\ isPlaying' = isPlaying

\* C14: the "a" key issues the seek command for entry activeIndex - 1 when
\* that index is >= 0, the "d" key for entry activeIndex + 1 when that index
\* is < length; otherwise (first / last entry, empty transcript) the key
\* neither seeks nor changes the playing state, and no seek is ever issued
\* for an index outside 0..length-1.
C14_Navigate == [][NavigationObeyed("a") /\ NavigationObeyed("d")]_vars

\* the "a" key pressed while the second entry is the active one: the seek
\* requested is at the start of the first entry
C14_Witness ==
    LET index == ActiveIndexOf(ParsedTimes(subtitles), currentTime)
    IN  /\ mounted /\ videoUrl # NoKey
        /\ lastKey.prevented /\ lastSeek.requested /\ isPlaying
        /\ index = 1
        /\ lastSeek.seconds = timeToSeconds(subtitles[index].startTime)
        /\ lastSeek.seconds # timeToSeconds(subtitles[index + 1].startTime)

\* C15: the "r" key issues the seek command for the first entry whose range
\* contains the current time, and neither seeks nor changes the playing
\* state when no entry contains it, also when activeIndex resolves the last
\* started entry.
C15_Repeat == [][NavigationObeyed("r")]_vars

\* the "r" key pressed in a gap after the first entry: activeIndex resolves
\* that entry, yet nothing is sought and playback stays paused
C15_Witness ==
    LET P == ParsedTimes(subtitles)
    IN  /\ mounted /\ videoUrl # NoKey
        /\ lastKey.prevented /\ lastSeek = NoSeek /\ ~isPlaying
        /\ ContainingAt(P, currentTime) = {}
        /\ ActiveIndexOf(P, currentTime) = 0

(***************************************************************************)
(* Transcript Codec: parseSRT on the text of a subtitle file, character by *)
(* character.                                                              *)
(***************************************************************************)

LF == "\n"
CR == "\r"

IsBlank(c) == c \in {" ", "\t", LF, CR}

\* the first position from `from` on at which sep occurs in s, 0 if none
NextMatch(s, sep, from) ==
    LET M == {i \in from..(Len(s) - Len(sep) + 1) :
                 SubSeq(s, i, i + Len(sep) - 1) = sep}
    IN  IF M = {} THEN 0 ELSE MinOf(M)

\* String.prototype.split with a separator of any length: the pieces of s
\* from position `from` on; i is where sep occurs next
RECURSIVE SplitOnFrom(_, _, _, _)
SplitOnFrom(s, sep, from, i) ==
    IF i = 0 THEN <<SubSeq(s, from, Len(s))>>
    ELSE <<SubSeq(s, from, i - 1)>>
         \o SplitOnFrom(s, sep, i + Len(sep), NextMatch(s, sep, i + Len(sep)))

SplitOn(s, sep) == SplitOnFrom(s, sep, 1, NextMatch(s, sep, 1))

\* String.prototype.trim
RECURSIVE TrimStart(_)
TrimStart(s) == IF s # <<>> /\ IsBlank(Head(s)) THEN TrimStart(Tail(s)) ELSE s

RECURSIVE TrimEnd(_)
TrimEnd(s) ==
    IF s # <<>> /\ IsBlank(s[Len(s)]) THEN TrimEnd(SubSeq(s, 1, Len(s) - 1)) ELSE s

trim(s) == TrimEnd(TrimStart(s))

\* Array.prototype.join of the lines from position i on
RECURSIVE JoinFrom(_, _, _)
JoinFrom(lines, sep, i) ==
    IF i > Len(lines) THEN <<>>
    ELSE IF i = Len(lines) THEN lines[i]
    ELSE lines[i] \o sep \o JoinFrom(lines, sep, i + 1)

\* the body of the loop of parseSRT: the entries a block adds
ParseBlock(block) ==
    LET lines == SplitOn(block, <<LF>>)
    IN  IF Len(lines) >= 3
        THEN LET timing == SplitOn(lines[2], <<" ", "-", "-", ">", " ">>)
             IN  <<[id        |-> parseInt(lines[1]),
                    startTime |-> Nth(timing, 1),
                    endTime   |-> Nth(timing, 2),
                    text      |-> JoinFrom(lines, <<LF>>, 3)]>>
        ELSE <<>>

RECURSIVE ParseBlocksFrom(_, _)
ParseBlocksFrom(blocks, i) ==
    IF i > Len(blocks) THEN <<>>
    ELSE ParseBlock(blocks[i]) \o ParseBlocksFrom(blocks, i + 1)

\* parseSRT
parseSRT(srtContent) ==
    ParseBlocksFrom(SplitOn(trim(srtContent), <<LF, LF>>), 1)

\* subtitle files: up to MaxBlocks blocks, each a full block with one of the
\* ids or a block of two lines, separated by one blank line, with line feeds
\* or carriage return + line feed as line ends, the last line ended or not
MaxBlocks == 3

BlockIds == {1, 7}

TextLine == <<"h", "i">>

\* kind 0: a block of two lines (id and timing); kind n > 0: a block with id n
BlockText(kind, nl) ==
    IF kind = 0 THEN <<"9">> \o nl \o S1 \o <<" ", "-", "-", ">", " ">> \o S2
    ELSE NumToString(kind) \o nl \o S1 \o <<" ", "-", "-", ">", " ">> \o S2
         \o nl \o TextLine

RECURSIVE TrackFrom(_, _, _)
TrackFrom(kinds, nl, i) ==
    IF i > Len(kinds) THEN <<>>
    ELSE IF i = Len(kinds) THEN BlockText(kinds[i], nl)
    ELSE BlockText(kinds[i], nl) \o nl \o nl \o TrackFrom(kinds, nl, i + 1)

LineEnds == {<<LF>>, <<CR, LF>>}

\* a file as the list of its block kinds, its line end and whether the last
\* line is ended
Files ==
    UNION {[kinds : [1..n -> BlockIds \cup {0}], nl : LineEnds, ended : BOOLEAN]
           : n \in 0..MaxBlocks}

FileText(f) == TrackFrom(f.kinds, f.nl, 1) \o (IF f.ended THEN f.nl ELSE <<>>)

\* file.text() of the chosen file goes through parseSRT
CallParseSRT ==
    /\ \E f \in Files :
          ret' = [op |-> "parseSRT", threw |-> FALSE, index |-> -1,
                  subs |-> parseSRT(FileText(f)), file |-> f]
    /\ UNCHANGED <<syncVars, playVars, scrollVars, gateVars, selVars, storeVars>>

InitParse ==
    /\ subtitles = <<>>
    /\ currentTime = 0
    /\ ret = NoRet
    /\ InitPlay /\ InitScroll /\ InitGate /\ InitSel /\ InitStore

SpecParse == InitParse /\ [][CallParseSRT]_vars

(***************************************************************************)
(* Claims checked under SpecParse                                          *)
(***************************************************************************)

\* the ids of the full blocks of a file, in block order
FullBlockIds(kinds) == SelectSeq(kinds, LAMBDA k : k # 0)

\* C17: parseSRT of a file of N full blocks separated by blank lines returns
\* exactly N entries, in block order, whatever the ids (repeated, unsorted,
\* with gaps); a block of fewer than three lines adds no entry and raises
\* nothing.
C17_ParseKeepsBlocks ==
    ret.op = "parseSRT" =>
        LET ids == FullBlockIds(ret.file.kinds)
        IN  /\ ~ret.threw
            /\ Len(ret.subs) = Len(ids)
            /\ \A i \in 1..Len(ids) : ret.subs[i].id = Num(ids[i])

(***************************************************************************)
(* Time Codec round trip: timeToSeconds, secondsToTimeStr, timeToSeconds   *)
(* on timestamps of the form HH:MM:SS,mmm.                                 *)
(***************************************************************************)

MaxStampSec == 2         \* timestamps 00:00:00,000 .. 00:00:MaxStampSec,MaxStampMs
MaxStampMs  == 39

ValidStamps ==
    {Stamp(s * 1000 + ms) : s \in 0..MaxStampSec, ms \in 0..MaxStampMs}

\* a timestamp handed to the codec, before anything is computed
CodecInput(timeStr) ==
    [op |-> "none", threw |-> FALSE, index |-> -1, subs |-> <<>>,
     timeStr |-> timeStr, seconds |-> NaN, text |-> <<>>, again |-> NaN]

InitCodec ==
    /\ subtitles = <<>>
    /\ currentTime = 0
    /\ MaxStampSec <= CodecSecs /\ MaxStampMs <= CodecMs
    /\ ret \in {CodecInput(t) : t \in ValidStamps}
    /\ InitPlay /\ InitScroll /\ InitGate /\ InitSel /\ InitStore

\* timeToSeconds(timeStr) on the timestamp, and on the text made from it
CallTimeToSeconds ==
    /\ \/ /\ ret.op = "none"
          /\ ret' = [ret EXCEPT !.op = "timeToSeconds",
                                !.seconds = timeToSeconds(ret.timeStr)]
       \/ /\ ret.op = "secondsToTimeStr"
          /\ ret' = [ret EXCEPT !.op = "roundTrip",
                                !.again = timeToSeconds(ret.text)]
    /\ UNCHANGED <<syncVars, playVars, scrollVars, gateVars, selVars, storeVars>>

\* secondsToTimeStr(seconds) on the number timeToSeconds gave
CallSecondsToTimeStr ==
    /\ ret.op = "timeToSeconds" /\ ret.seconds.kind = "num"
    /\ ret' = [ret EXCEPT !.op = "secondsToTimeStr",
                          !.text = secondsToTimeStr(ret.seconds.v)]
    /\ UNCHANGED <<syncVars, playVars, scrollVars, gateVars, selVars, storeVars>>

NextCodec == CallTimeToSeconds \/ CallSecondsToTimeStr

SpecCodec == InitCodec /\ [][NextCodec]_vars

(***************************************************************************)
(* Claims checked under SpecCodec                                          *)
(***************************************************************************)

\* C18: for every timestamp t of the form HH:MM:SS,mmm,
\* timeToSeconds(secondsToTimeStr(timeToSeconds(t))) = timeToSeconds(t), and
\* the text in between has H, M, S on two digits and the milliseconds on
\* three.
C18_RoundTrip ==
    ret.op = "roundTrip" =>
        /\ ret.seconds.kind = "num"
        /\ ret.again = ret.seconds
        /\ Len(ret.text) = 12
        /\ ret.text[3] = ":" /\ ret.text[6] = ":" /\ ret.text[9] = ","
        /\ \A i \in {1, 2, 4, 5, 7, 8, 10, 11, 12} : IsDigit(ret.text[i])

(***************************************************************************)
(* Further claims checked under SpecEdit                                   *)
(***************************************************************************)

\* the promise of a saveSubtitles call is rejected and its handler catches it
SaveRejected(i) ==
    /\ i \in 1..Len(responses)
    /\ responses[i].op = "saveSubtitles" /\ ~responses[i].ok
    /\ responses' = RemoveAt(responses, i)

\* C19: when saveSubtitles rejects during a subtitle import or an edit save,
\* the failed write leaves the stored transcripts as they were, and once the
\* rejection has been handled the live transcript is what it was before the
\* handler started.  (Checked where no other storage operation is pending,
\* so nothing else has written in between.)
C19_FailedSaveLeavesState ==
    [][/\ ( /\ responses' = Append(responses, lastExec')
            /\ lastExec'.op = "saveSubtitles" /\ ~lastExec'.ok )
          => subtitlesStore' = subtitlesStore
       /\ \A i \in 1..Len(responses) :
             (SaveRejected(i) /\ Len(responses) = 1)
                => /\ subtitles' = responses[i].prior
                   /\ subtitlesStore' = subtitlesStore
      ]_vars

(***************************************************************************)
(* Share link: the effect that loads the transcript from location.hash.    *)
(*                                                                         *)
(* LZString.decompressFromEncodedURIComponent is a library call: for a     *)
(* token it cannot decompress it returns null or the empty string, or it   *)
(* throws; otherwise it returns a text.                                    *)
(***************************************************************************)

MaxHashBlocks == 3       \* blocks of a transcript carried by a fragment

\* the texts a fragment decompresses to: files of full and two-line blocks,
\* with either line end
HashFiles ==
    UNION {[kinds : [1..n -> BlockIds \cup {0}], nl : LineEnds, ended : {FALSE}]
           : n \in 1..MaxHashBlocks}

\* what the effect finds: no fragment, or the outcome of the decompression
HashOutcomes ==
    {[kind |-> k, file |-> <<>>] : k \in {"nohash", "null", "empty", "throw"}}
    \cup {[kind |-> "text", file |-> f] : f \in HashFiles}

DecodeFailures == {"null", "empty", "throw"}

\* the effect with a decode failure taken for an empty transcript
hashSubtitlesClearedOnFailure(outcome, subs) ==
    IF outcome.kind = "text" THEN parseSRT(FileText(outcome.file))
    ELSE IF outcome.kind = "nohash" THEN subs
    ELSE <<>>

\* the subtitles state the effect leaves: setSubtitles(parseSRT(text)) only
\* inside if (hash), try, if (decompressedSubtitles)
hashSubtitles(outcome, subs) ==
    IF outcome.kind = "text" THEN parseSRT(FileText(outcome.file)) ELSE subs

\* the effect on location.hash runs: at mount, and when the fragment changes;
\* ret records what the decompression came to and whether the transcript
\* after the effect is the one before it (kept)
HashLoadEffect ==
    /\ mounted
    /\ \E outcome \in HashOutcomes :
          /\ subtitles' = hashSubtitles(outcome, subtitles)
          /\ ret' = [op |-> "hashLoad", threw |-> FALSE, index |-> -1,
                     subs |-> <<>>, outcome |-> outcome.kind,
                     kept |-> (subtitles' = subtitles)]
    /\ UNCHANGED <<currentTime, playVars, scrollVars, gateVars, selVars, storeVars>>

InitHash ==
    /\ subtitles = <<>>
    /\ currentTime = 0
    /\ ret = NoRet
    /\ InitPlay /\ InitScroll /\ InitGate /\ InitSel /\ InitStore

SpecHash == InitHash /\ [][HashLoadEffect]_vars

(***************************************************************************)
(* Claims checked under SpecHash                                           *)
(***************************************************************************)

\* C20: when the fragment's token does not decompress (the library returns
\* null or nothing, or throws), the effect lets no exception escape and the
\* live transcript is exactly what it was before the fragment was read.
C20_DecodeFailureKeepsTranscript ==
    (ret.op = "hashLoad" /\ ret.outcome \in DecodeFailures) =>
        /\ ~ret.threw
        /\ mounted
        /\ ret.kept

\* a transcript loaded from an earlier fragment is live when the library
\* throws on the next one
C20_Witness ==
    /\ ret.op = "hashLoad" /\ ret.outcome = "throw"
    /\ Len(subtitles) = 2
    /\ ret.kept

(***************************************************************************)
(* Claims on the selection and the loads it starts, checked under          *)
(* SpecStore                                                               *)
(***************************************************************************)

\* the stored transcript of a key, empty when the key has no record
StoredFor(key) ==
    IF key \in DOMAIN subtitlesStore THEN subtitlesStore[key] ELSE <<>>

\* C21: when the loadSubtitles answer for the selected key is applied and
\* nothing else is in flight after it, the session subtitles are the
\* transcript stored for that key, and are empty when the key has none:
\* entries of the previously selected video do not stay.
C21_SelectionDrivesTranscript ==
    [][\A i \in 1..Len(responses) :
          ( /\ Deliverable(i)
            /\ responses[i].cont = "loadSubtitles"
            /\ responses[i].key = currentVideoKey
            /\ responses' = RemoveAt(responses, i)
            /\ responses' = <<>> )
          => subtitles' = StoredFor(currentVideoKey)]_vars

(***************************************************************************)
(* Transcript records: saveSubtitles and loadSubtitles called one after    *)
(* the other on any keys, from the empty store.                            *)
(***************************************************************************)

SavedEntries == StoredTranscripts \cup {<<>>}

CallSaveSubtitles(videoKey, subs, ok) ==
    /\ subtitlesStore' = SavedRows(subtitlesStore, videoKey, subs, ok)
    /\ lastExec' = saveSubtitles(videoKey, subs, "none", ok)
    /\ ret' = [op |-> "saveSubtitles", threw |-> FALSE, index |-> -1,
               subs |-> <<>>, after |-> lastExec]
    /\ UNCHANGED <<videoStore, deletedMedia, deletedSubtitles, responses,
                   subtitles, selVars, currentTime, playVars, scrollVars,
                   gateVars>>

CallLoadSubtitles(videoKey) ==
    /\ lastExec' = loadSubtitles(videoKey, "none")
    /\ ret' = [op |-> "loadSubtitles", threw |-> FALSE, index |-> -1,
               subs |-> <<>>, after |-> lastExec]
    /\ UNCHANGED <<storeUnchanged, responses, subtitles, selVars, currentTime,
                   playVars, scrollVars, gateVars>>

NextRecords ==
    \/ \E key \in Keys, subs \in SavedEntries, ok \in BOOLEAN :
          CallSaveSubtitles(key, subs, ok)
    \/ \E key \in Keys : CallLoadSubtitles(key)

SpecRecords == InitStoreSpec /\ [][NextRecords]_vars

(***************************************************************************)
(* Claims checked under SpecRecords                                        *)
(***************************************************************************)

\* C22: a loadSubtitles(key) that follows a resolved saveSubtitles(key,
\* entries) finds a record and returns exactly entries, the empty sequence
\* included; a resolved save leaves entries as the whole record of key and
\* the records of the other keys as they were, adding no record but that of
\* key; a rejected save changes no record.
C22_SaveLoadRoundTrip ==
    [][ /\ ( /\ lastExec'.op = "loadSubtitles"
             /\ lastExec.op = "saveSubtitles" /\ lastExec.ok
             /\ lastExec'.key = lastExec.key )
           => (lastExec'.found /\ lastExec'.subs = lastExec.subs)
        /\ (lastExec'.op = "saveSubtitles" /\ lastExec'.ok)
           => /\ DOMAIN subtitlesStore' = DOMAIN subtitlesStore \cup {lastExec'.key}
              /\ subtitlesStore'[lastExec'.key] = lastExec'.subs
              /\ \A k \in DOMAIN subtitlesStore \ {lastExec'.key} :
                    subtitlesStore'[k] = subtitlesStore[k]
        /\ (lastExec'.op = "saveSubtitles" /\ ~lastExec'.ok)
           => subtitlesStore' = subtitlesStore ]_vars

\* the empty sequence is saved and comes back as a found, empty record,
\* while the other key keeps its record of two entries
C22_Witness ==
    /\ ret.op = "loadSubtitles"
    /\ ret.after.op = "saveSubtitles" /\ ret.after.ok
    /\ ret.after.key = lastExec.key /\ ret.after.subs = <<>>
    /\ lastExec.found /\ lastExec.subs = <<>>
    /\ \E k \in DOMAIN subtitlesStore \ {lastExec.key} : Len(subtitlesStore[k]) = 2

(***************************************************************************)
(* The playback position and the registered keydown handler.               *)
(*                                                                         *)
(* handleKeyDown is a closure: it reads the currentTime and the subtitles  *)
(* of the render in which the keydown effect registered it, through the    *)
(* getCurrentSubtitleIndex and getCurrentSubtitles callbacks of that       *)
(* render.  Here ret is that registered handler: the values it captured    *)
(* (time, subs), the index its last run resolved, and the playedSeconds of *)
(* the last two progress events.  As everywhere in this module a state     *)
(* update, the render it causes and the effects of that render are one     *)
(* step.                                                                   *)
(***************************************************************************)

ProgressKeys == {"a", "d", "r", "e"}

\* the dependencies of the two callbacks, and of the keydown effect
CallbackDeps == <<subtitles, currentTime>>

KeydownDeps == <<subtitles, isPlaying, isControlModeEnabled, CallbackDeps,
                 isSubtitlesVisible, isEditDialogOpen, volume>>

\* the keydown effect with the two callbacks memoized on the subtitles alone
BindHandlerOncePerTranscript(step, index, delivered, earlier) ==
    LET rebind == <<subtitles, isPlaying, isControlModeEnabled,
                    isSubtitlesVisible, isEditDialogOpen, volume>>'
                  # <<subtitles, isPlaying, isControlModeEnabled,
                      isSubtitlesVisible, isEditDialogOpen, volume>>
    IN  ret' = [op |-> step, threw |-> index.threw, index |-> index.val,
                subs |-> IF rebind THEN subtitles' ELSE ret.subs,
                time |-> IF rebind THEN currentTime' ELSE ret.time,
                delivered |-> delivered, earlier |-> earlier]

\* the keydown effect after the render of a step: a new handler is registered
\* when a dependency changed, else the registered one stays
BindHandler(step, index, delivered, earlier) ==
    LET rebind == KeydownDeps' # KeydownDeps
    IN  ret' = [op |-> step, threw |-> index.threw, index |-> index.val,
                subs |-> IF rebind THEN subtitles' ELSE ret.subs,
                time |-> IF rebind THEN currentTime' ELSE ret.time,
                delivered |-> delivered, earlier |-> earlier]

progressFrame == <<subtitles, currentTime, mounted, isUserScrolling,
                   scrollTimeoutRef, now, timers, nextTimerId, lastScrollAt,
                   clearedDue, selVars, storeVars>>

InitProgress ==
    /\ subtitles \in KeyTranscripts
    /\ currentTime = 0
    /\ ret = [op |-> "mount", threw |-> FALSE, index |-> -1, subs |-> subtitles,
              time |-> 0, delivered |-> -1, earlier |-> -1]
    /\ InitPlay /\ InitScroll /\ InitGate /\ InitStore
    /\ currentVideoKey = NoKey
    /\ videoUrl \in {NoKey, "a"}
    /\ videoUrl = NoKey => subtitles = <<Entry(1, S1, S1), Entry(2, S2, S2)>>
    /\ videos = {}

\* onProgress of the player: handleProgress(state)
ProgressDelivered ==
    /\ mounted
    /\ \E playedSeconds \in PlayTimes :
          /\ currentTime' = playedSeconds
          /\ mounted' = Renders(subtitles, playedSeconds)
          /\ UNCHANGED <<subtitles, isPlaying, isUserScrolling, scrollTimeoutRef,
                         now, timers, nextTimerId, lastScrollAt, clearedDue>>
          /\ UNCHANGED <<gateState, selVars, storeVars>>
          /\ BindHandler("handleProgress", [threw |-> FALSE, val |-> -1],
                         playedSeconds, ret.delivered)
    /\ AfterRender
    /\ KeydownEffect

\* a keydown event reaches the registered handler, which resolves the index
\* and the current subtitles from what it captured
RegisteredKeyDownAt(key, currentIndex, currentSubs) ==
    /\ mounted
    /\ UNCHANGED <<isControlModeEnabled, progressFrame>>
    /\ Handled(handleKeyDown(key, currentIndex, currentSubs))
    /\ BindHandler("handleKeyDown", currentIndex, ret.delivered, ret.earlier)
    /\ AfterRender
    /\ KeydownEffect

RegisteredKeyDown(key) ==
    RegisteredKeyDownAt(key, getCurrentSubtitleIndex(ret.subs, ret.time),
                        getCurrentSubtitles(ret.subs, ret.time))

\* onClose of the edit dialog
DialogClosed ==
    /\ mounted
    /\ isEditDialogOpen
    /\ isEditDialogOpen' = FALSE
    /\ UNCHANGED <<isControlModeEnabled, selectedSubtitle, isSubtitlesVisible,
                   volume, isMuted, lastKey, lastSeek, isPlaying, progressFrame>>
    /\ BindHandler("onClose", [threw |-> FALSE, val |-> -1], ret.delivered,
                   ret.earlier)
    /\ AfterRender
    /\ KeydownEffect

NextProgress ==
    \/ \E key \in ProgressKeys : RegisteredKeyDown(key)
    \/ ProgressDelivered
    \/ DialogClosed

SpecProgress == InitProgress /\ [][NextProgress]_vars

(***************************************************************************)
(* Claims checked under SpecProgress                                       *)
(***************************************************************************)

\* playedSeconds of the most recently delivered progress event, 0 before the
\* first one
LatestDelivered(r) == IF r.delivered = -1 THEN 0 ELSE r.delivered

CmdKeys == {"ArrowUp", "ArrowDown", "r", "Enter", "x"}

\* transcripts sorted by start time whose entries do not overlap
CmdTranscripts ==
    { <<>>,
      <<Entry(1, S1, S2)>>,
      <<Entry(1, S1, S1), Entry(2, S2, S2)>> }

getCurrentSubtitleIndexCmd(subs, t) == FindIndexFrom(subs, t, 1)

handleKeyDownCmd(metaKey, key, currentIndex, currentSubs) ==
    IF ~metaKey THEN Untouched(key)
    ELSE IF currentIndex.threw THEN [Untouched(key) EXCEPT !.threw = TRUE]
    ELSE CASE key = "ArrowUp" ->
                IF currentIndex.val > 0
                THEN handleSeek(subtitles[currentIndex.val].startTime,
                                Entered(key, "ArrowUp"))
                ELSE Entered(key, "ArrowUp")
           [] key = "ArrowDown" ->
                IF currentIndex.val < Len(subtitles) - 1
                THEN handleSeek(subtitles[currentIndex.val + 2].startTime,
                                Entered(key, "ArrowDown"))
                ELSE Entered(key, "ArrowDown")
           [] key = "r" ->
                IF currentSubs.threw
                THEN [Entered(key, "r") EXCEPT !.threw = TRUE]
                ELSE IF Len(currentSubs.val) > 0
                THEN handleSeek(currentSubs.val[1].startTime, Entered(key, "r"))
                ELSE Entered(key, "r")
           [] key = "Enter" ->
                [Entered(key, "Enter") EXCEPT !.isPlaying = ~isPlaying]
           [] OTHER -> Untouched(key)

InitCmd ==
    /\ subtitles \in CmdTranscripts
    /\ currentTime = 0
    /\ ret = NoRet
    /\ InitPlay /\ InitScroll /\ InitGate /\ InitStore
    /\ currentVideoKey = NoKey
    /\ videoUrl \in {NoKey, "a"}
    /\ videos = {}

CmdKeyDownAt(metaKey, key, currentIndex, currentSubs) ==
    /\ mounted
    /\ UNCHANGED <<isControlModeEnabled, boundIsMuted, keysFrame>>
    /\ Handled(handleKeyDownCmd(metaKey, key, currentIndex, currentSubs))
    /\ AfterRender

CmdKeyDown(metaKey, key) ==
    CmdKeyDownAt(metaKey, key, getCurrentSubtitleIndexCmd(subtitles, currentTime),
                 getCurrentSubtitles(subtitles, currentTime))

NextCmd ==
    \/ \E metaKey \in BOOLEAN, key \in CmdKeys : CmdKeyDown(metaKey, key)
    \/ handleProgress

SpecCmd == InitCmd /\ [][NextCmd]_vars

(***************************************************************************)
(* Claims checked under SpecCmd                                            *)
(***************************************************************************)

\* the entries (1-based positions) that start after t, and those that have
\* ended before t or, with t inside an entry, lie before that entry
StartingAfter(P, t) == {i \in DOMAIN P : P[i].a.v > t}

LyingBefore(P, t) ==
    {i \in DOMAIN P : P[i].b.v < t /\ \A j \in ContainingAt(P, t) : i < j}

\* what a Cmd+Arrow step has to leave given the set of entries to choose
\* from: the seek command for the chosen one, or nothing sought
JumpedTo(S, i) ==
    IF S # {} THEN SeekOutcome(i)
    ELSE lastSeek' = NoSeek /\ isPlaying' = isPlaying

\* C24: in a sorted transcript without overlaps, at every playback position,
\* inside an entry or in a gap, Cmd+ArrowDown issues the seek command for the
\* first entry that starts after the position and Cmd+ArrowUp for the last
\* entry that lies before it; neither seeks when there is no such entry, and
\* Cmd+ArrowDown never seeks to an entry that starts before the position.
C24_CmdJumps ==
    [][LET P    == ParsedTimes(subtitles)
           down == StartingAfter(P, currentTime)
           up   == LyingBefore(P, currentTime)
       IN  /\ CmdKeyDown(TRUE, "ArrowDown") =>
                 JumpedTo(down, IF down # {} THEN MinOf(down) ELSE 0)
           /\ CmdKeyDown(TRUE, "ArrowUp") =>
                 JumpedTo(up, IF up # {} THEN MaxOf(up) ELSE 0)
      ]_vars

(***************************************************************************)
(* Teardown: AppContent is unmounted while the scroll session runs.  React *)
(* runs the cleanup of the mount effect, which reads scrollTimeoutRef as   *)
(* it is at that moment; an unmounted component gets no further events.    *)
(***************************************************************************)

\* the unmount without its cleanup
CleanupTimersNothingCleared == timers

\* the pending timers after the cleanup: clearTimeout(scrollTimeoutRef.current)
\* if the ref holds an id
CleanupTimers ==
    {tm \in timers : scrollTimeoutRef = 0 \/ tm.id # scrollTimeoutRef}

Unmount ==
    /\ mounted
    /\ mounted' = FALSE
    /\ timers' = CleanupTimers
    /\ UNCHANGED <<syncVars, isPlaying, isUserScrolling, scrollTimeoutRef, now,
                   nextTimerId, lastScrollAt, clearedDue>>
    /\ autoScroll' = NoAutoScroll
    /\ UNCHANGED <<gateVars, selVars, storeVars, ret>>

\* onScroll of the mounted subtitles container
ScrollMounted == mounted /\ handleScroll

NextTeardown ==
    \/ ScrollMounted
    \/ handleProgress
    \/ TimerFire
    \/ Tick
    \/ Unmount

SpecTeardown == InitScrollSpec /\ [][NextTeardown]_vars

(***************************************************************************)
(* Claims checked under SpecTeardown                                       *)
(***************************************************************************)

\* C25: whatever scroll events came before the unmount, no scroll timer is
\* pending once the component is unmounted, and from then on nothing sets
\* isUserScrolling: the timer callback never runs after the teardown.
C25_TeardownCancelsTimer ==
    [][~mounted' => /\ timers' = {}
                    /\ ~mounted => UNCHANGED isUserScrolling]_vars

\* unmounted less than ScrollResetDelay after the second of two scrolls; the
\* time the cancelled timer was due has passed and isUserScrolling is still set
C25_Witness ==
    /\ ~mounted /\ timers = {}
    /\ scrollTimeoutRef = 2 /\ clearedDue # -1
    /\ now >= lastScrollAt + ScrollResetDelay
    /\ isUserScrolling

(***************************************************************************)
(* A session in which the user never scrolls.  scrollIntoView moves the    *)
(* subtitles container unless the element is already centred, and the      *)
(* browser dispatches the scroll events of that movement to the            *)
(* container's onScroll like those of any other scroll.                    *)
(***************************************************************************)

\* a scroll event of the movement started by the scrollIntoView of the last
\* step reaches onScroll={handleScroll}
ScrollIntoViewEvent == autoScroll.invoked /\ handleScroll

NextAutoScroll ==
    \/ handleProgress
    \/ OnPlay
    \/ OnPause
    \/ ScrollIntoViewEvent
    \/ TimerFire
    \/ Tick

SpecAutoScroll == InitScrollSpec /\ [][NextAutoScroll]_vars

(***************************************************************************)
(* Claims checked under SpecAutoScroll                                     *)
(***************************************************************************)

\* C26: the scroll caused by the auto-scroll effect's own scrollIntoView does
\* not set isUserScrolling and starts no timer: only a scroll made by the
\* user does.
C26_AutoScrollNotSuppressing ==
    [][ScrollIntoViewEvent => (isUserScrolling' = isUserScrolling /\ timers' = timers)]_vars

(***************************************************************************)
(* Claims on handleVideoDelete, checked under SpecStore                    *)
(***************************************************************************)

\* C27: when the delete of a key that is not the selected one completes, the
\* selected key, the video URL and the subtitles of the session stay as they
\* are; when the delete of the selected key completes they are cleared.
C27_DeleteOtherKeepsSession ==
    [][\A i \in 1..Len(responses) :
          ( /\ Deliverable(i)
            /\ responses[i].cont = "deleteListed"
            /\ responses' = RemoveAt(responses, i) )
          => IF responses[i].key = currentVideoKey
             THEN currentVideoKey' = NoKey /\ videoUrl' = NoKey /\ subtitles' = <<>>
             ELSE UNCHANGED <<currentVideoKey, videoUrl, subtitles>>]_vars

(***************************************************************************)
(* Claims on muting and the volume, checked under SpecKeys                 *)
(***************************************************************************)

\* C28: with control mode on and no dialog open, every press of the "m" key
\* flips isMuted, so that one press always changes it and two presses in a
\* row, with no other event between them, leave it as it was before the first.
C28_MuteKeyFlips ==
    [][(GateOpen /\ KeyDown("m")) => isMuted' = ~isMuted]_vars

\* C29: after every change of the volume made by a volume-step key, whatever
\* "m" presses came before it, isMuted is true exactly when the new volume is
\* 0, and the volume is one of the doubles of VolumeTable, all within [0, 1].
C29_MutedIffSilent ==
    [][\A key \in {"ArrowUp", "ArrowDown"} :
          (GateOpen /\ KeyDown(key)) =>
              /\ isMuted' <=> volume' = "0"
              /\ volume' \in DOMAIN VolumeRow]_vars

(***************************************************************************)
(* Subtitle import, with its suspension at file.text().  handleSrtImport   *)
(* checks urlState.currentVideoKey, awaits the text of the file, and then  *)
(* parses it, sets the subtitles and saves them under the key of the       *)
(* render that created the handler, whatever is selected by then.  Here    *)
(* ret is the import in progress: the key it captured and the file chosen. *)
(***************************************************************************)

\* the files imported: two blocks, with LF and with CR LF line ends
ImportFiles ==
    { [kinds |-> <<1, 7>>, nl |-> <<LF>>, ended |-> FALSE],
      [kinds |-> <<1, 7>>, nl |-> <<CR, LF>>, ended |-> TRUE] }

\* the put of an import succeeds here; handleSrtImport with a failing put is
\* followed under SpecStore and SpecEdit
PutSucceeds == {TRUE}

Import(op, key, f, ok) ==
    [op |-> op, threw |-> FALSE, index |-> -1, subs |-> <<>>,
     key |-> key, file |-> f, ok |-> ok]

\* handleSrtImport up to its first await: the alert and return when no key is
\* selected, else file.text() is started
SrtImportChosen(f) ==
    /\ MayStart
    /\ ret.op # "fileText"
    /\ ret' = IF currentVideoKey = NoKey THEN Import("alert", NoKey, <<>>, FALSE)
              ELSE Import("fileText", currentVideoKey, f, FALSE)
    /\ UNCHANGED <<syncVars, playVars, scrollVars, gateVars, selVars, storeVars>>

\* the rest of handleSrtImport saving under the key selected when the text
\* has arrived
TextReadAsUnderLiveKey(parsedSubtitles, ok) ==
    /\ ret.op = "fileText"
    /\ subtitles' = parsedSubtitles
    /\ subtitlesStore' = SavedRows(subtitlesStore, currentVideoKey, parsedSubtitles, ok)
    /\ deletedSubtitles' = IF ok THEN deletedSubtitles \ {currentVideoKey}
                           ELSE deletedSubtitles
    /\ lastExec' = saveSubtitles(currentVideoKey, parsedSubtitles, "saved", ok)
    /\ responses' = Append(responses, lastExec')
    /\ ret' = Import("imported", ret.key, ret.file, ok)
    /\ UNCHANGED <<videoStore, deletedMedia, selVars, currentTime, playVars,
                   scrollVars, gateVars>>

\* the rest of handleSrtImport once file.text() has resolved: parseSRT,
\* setSubtitles, saveSubtitles; ok says whether the put succeeds
TextReadAs(parsedSubtitles, ok) ==
    /\ ret.op = "fileText"
    /\ subtitles' = parsedSubtitles
    /\ subtitlesStore' = SavedRows(subtitlesStore, ret.key, parsedSubtitles, ok)
    /\ deletedSubtitles' = IF ok THEN deletedSubtitles \ {ret.key}
                           ELSE deletedSubtitles
    /\ lastExec' = saveSubtitles(ret.key, parsedSubtitles, "saved", ok)
    /\ responses' = Append(responses, lastExec')
    /\ ret' = Import("imported", ret.key, ret.file, ok)
    /\ UNCHANGED <<videoStore, deletedMedia, selVars, currentTime, playVars,
                   scrollVars, gateVars>>

TextRead(ok) ==
    /\ ret.op = "fileText"
    /\ TextReadAs(parseSRT(FileText(ret.file)), ok)

NextImport ==
    \/ \E key \in Keys : handleVideoImport(key)
    \/ \E f \in ImportFiles : SrtImportChosen(f)
    \/ \E ok \in PutSucceeds : TextRead(ok)
    \/ \E i \in 1..Len(responses) : MountListed(i)
    \/ \E i \in 1..Len(responses) : LoadVideoThen(i)
    \/ \E i \in 1..Len(responses) : LoadSubtitlesThen(i)
    \/ \E i \in 1..Len(responses) : ImportSaved(i)
    \/ \E i \in 1..Len(responses) : ImportListed(i)
    \/ \E i \in 1..Len(responses) : SubtitlesSaved(i)

SpecImport == InitStoreSpec /\ [][NextImport]_vars

(***************************************************************************)
(* Claims checked under SpecImport                                         *)
(***************************************************************************)

\* C30: an import chosen while no key is selected reads no file and changes
\* neither the subtitles of the session nor any stored record; one chosen
\* while key K is selected changes nothing before the text has arrived, and
\* once it has and the save succeeds, the subtitles of the session and the
\* record stored under K are both parseSRT(text), no record is added under
\* another key and the records of the other keys are as they were.
C30_ImportNeedsKey ==
    [][ /\ \A f \in ImportFiles :
              SrtImportChosen(f) =>
                  /\ UNCHANGED <<subtitles, subtitlesStore>>
                  /\ IF currentVideoKey = NoKey THEN ret'.op = "alert"
                     ELSE /\ ret'.op = "fileText"
                          /\ ret'.key = currentVideoKey /\ ret'.file = f
        /\ TextRead(TRUE) =>
              /\ ret.key # NoKey
              /\ subtitles' = parseSRT(FileText(ret.file))
              /\ DOMAIN subtitlesStore' = DOMAIN subtitlesStore \cup {ret.key}
              /\ subtitlesStore'[ret.key] = parseSRT(FileText(ret.file))
              /\ \A k \in DOMAIN subtitlesStore \ {ret.key} :
                    subtitlesStore'[k] = subtitlesStore[k]
      ]_vars

\* the selection moved from "a" to "b" while the text of a file chosen under
\* "a" was read: the two parsed entries are on screen and stored under "a",
\* and nothing is stored under "b"
C30_Witness ==
    /\ ret.op = "imported" /\ ret.ok
    /\ ret.key = "a" /\ currentVideoKey = "b"
    /\ Len(subtitles) = 2
    /\ "a" \in DOMAIN subtitlesStore /\ subtitlesStore["a"] = subtitles
    /\ "b" \notin DOMAIN subtitlesStore

====
